---- MODULE Spec2Model ----
(***************************************************************************)
(* Asktra: the causal pipeline (infer version -> causal reasoning ->       *)
(* optional verification -> citation resolution -> result), its two entry  *)
(* points (synchronous ask, streamed ask), the derivative generators and   *)
(* the response extractor, as a state machine.                             *)
(*                                                                         *)
(* Text is a sequence of tokens.  A token is a record; its field c is the  *)
(* character class: "{" and "}" (braces), "FENCE" and "FENCEJSON" (the     *)
(* three-backtick fence, bare and tagged json), " " (whitespace), "x" (a   *)
(* prose character), "lit" (a JSON literal that is not an object: null,    *)
(* number, string, array, boolean), "m" (one object member "key": value    *)
(* with a non-object value) and "k" (a member key "key": whose value, an   *)
(* object, follows).  The field brace is the brace character the token's   *)
(* text contains, when it does.  Numbers are in hundredths (90 is 0.9).    *)
(*                                                                         *)
(* A string value (a field of a parsed object, a query, a citation, an     *)
(* error message) is a sequence of words; " " is the whitespace word and   *)
(* <<>> the empty string.                                                  *)
(***************************************************************************)
EXTENDS Integers, Sequences, FiniteSets, TLC

\* ------------------------------------------------------------------ bounds

\* How many requests the server handles in one behaviour.
MaxRequests == 2
\* Longest list (evidence, reasoning trace, ...) a model answer carries.
MaxList == 4

\* Longest citation list handed to the resolver in a direct call.
MaxCitations == 3
\* The longest event stream handed to the page's consumer.
MaxEvents == 3

\* ------------------------------------------------------------------ tokens

Ch(c) == [c |-> c, key |-> "", type |-> "", str |-> <<>>, num |-> 0, list |-> <<>>,
          brace |-> IF c \in {"{", "}"} THEN c ELSE ""]
Lit(type) == [c |-> "lit", key |-> "", type |-> type, str |-> <<>>, num |-> 0,
              list |-> <<>>, brace |-> ""]
Mem(key, type, str, num, list) ==
    [c |-> "m", key |-> key, type |-> type, str |-> str, num |-> num,
     list |-> list, brace |-> ""]
Key(key) == [c |-> "k", key |-> key, type |-> "", str |-> <<>>, num |-> 0,
             list |-> <<>>, brace |-> ""]

\* A list item of a JSON array: a string, or something that is not a string.
StrItem(s) == [type |-> "string", str |-> s]
NumItem == [type |-> "number", str |-> <<>>]

LB == Ch("{")
RB == Ch("}")
WS == Ch(" ")
Prose == Ch("x")
Fence == Ch("FENCE")
FenceJson == Ch("FENCEJSON")

\* ------------------------------------------------------- string primitives

\* String.prototype.trim on a token text: drops leading and trailing whitespace.
RECURSIVE TrimLeft(_)
TrimLeft(t) ==
    IF t # <<>> /\ Head(t).c = " " THEN TrimLeft(Tail(t)) ELSE t

RECURSIVE TrimRight(_)
TrimRight(t) ==
    IF t # <<>> /\ t[Len(t)].c = " " THEN TrimRight(SubSeq(t, 1, Len(t) - 1)) ELSE t

Trim(t) == TrimRight(TrimLeft(t))

\* Whether a separator starts at a token.  The bare fence is a prefix of the
\* tagged one, so a search or split on the bare fence also hits a tagged
\* fence token (and leaves its tag behind as prose).
IsSep(tok, sep) ==
    IF sep = "FENCE" THEN tok.c \in {"FENCE", "FENCEJSON"} ELSE tok.c = sep

Includes(t, sep) == \E i \in 1..Len(t) : IsSep(t[i], sep)

SepPositions(t, sep) == {i \in 1..Len(t) : IsSep(t[i], sep)}

Min(S) == CHOOSE x \in S : \A y \in S : x <= y

\* What a cut at a separator leaves in the text after it: cutting a tagged
\* fence at the bare fence leaves the word json.
Residue(tok, sep) ==
    IF sep = "FENCE" /\ tok.c = "FENCEJSON" THEN <<Prose>> ELSE <<>>

\* String.prototype.split(sep)[n] for n = 0 and n = 1; Undefined when the
\* piece does not exist.
Undefined == <<[c |-> "undefined", key |-> "", type |-> "", str |-> <<>>, num |-> 0,
                list |-> <<>>, brace |-> ""]>>

SplitAt0(t, sep) ==
    LET P == SepPositions(t, sep)
    IN IF P = {} THEN t ELSE SubSeq(t, 1, Min(P) - 1)

SplitAt1(t, sep) ==
    LET P == SepPositions(t, sep)
    IN IF P = {} THEN Undefined
       ELSE LET first == Min(P)
                rest  == {i \in P : i > first}
                stop  == IF rest = {} THEN Len(t) ELSE Min(rest) - 1
            IN Residue(t[first], sep) \o SubSeq(t, first + 1, stop)

\* ------------------------------------------------------------- JSON.parse

JsonValue(type, members) == [type |-> type, members |-> members]
EmptyObject == JsonValue("object", <<>>)
ParseFail == [ok |-> FALSE, next |-> 0, val |-> JsonValue("undefined", <<>>)]

MemberOf(tok) == [key |-> tok.key, type |-> tok.type, str |-> tok.str,
                  num |-> tok.num, list |-> tok.list]

RECURSIVE SkipWs(_, _)
SkipWs(t, i) == IF i <= Len(t) /\ t[i].c = " " THEN SkipWs(t, i + 1) ELSE i

RECURSIVE ParseValue(_, _)
RECURSIVE ParseItems(_, _, _)
\* One JSON value starting at position i.
ParseValue(t, i) ==
    IF i > Len(t) THEN ParseFail
    ELSE IF t[i].c = "lit"
         THEN [ok |-> TRUE, next |-> i + 1, val |-> JsonValue(t[i].type, <<>>)]
    ELSE IF t[i].c = "{" THEN ParseItems(t, SkipWs(t, i + 1), <<>>)
    ELSE ParseFail

\* The members of an object up to its closing brace.
ParseItems(t, i, acc) ==
    IF i > Len(t) THEN ParseFail
    ELSE IF t[i].c = "}"
         THEN [ok |-> TRUE, next |-> i + 1, val |-> JsonValue("object", acc)]
    ELSE IF t[i].c = "m"
         THEN ParseItems(t, SkipWs(t, i + 1), Append(acc, MemberOf(t[i])))
    ELSE IF t[i].c = "k"
         THEN LET v == ParseValue(t, SkipWs(t, i + 1))
              IN IF v.ok
                 THEN ParseItems(t, SkipWs(t, v.next),
                                 Append(acc, [key |-> t[i].key, type |-> v.val.type,
                                              str |-> <<>>, num |-> 0, list |-> <<>>]))
                 ELSE ParseFail
    ELSE ParseFail

\* JSON.parse: one value, whitespace around it, nothing else; ok = FALSE is
\* the SyntaxError.
JsonParse(t) ==
    LET v == ParseValue(t, SkipWs(t, 1))
    IN IF v.ok /\ SkipWs(t, v.next) > Len(t) THEN v ELSE ParseFail

\* ------------------------------------------------------------ extractJson

BracePositions(t, b) == {i \in 1..Len(t) : t[i].brace = b}

\* The depth walk of the third attempt: the position of the brace that
\* closes the one at start, 0 when there is none.
RECURSIVE WalkDepth(_, _, _)
WalkDepth(raw, i, depth) ==
    IF i > Len(raw) THEN 0
    ELSE IF raw[i].brace = "{" THEN WalkDepth(raw, i + 1, depth + 1)
    ELSE IF raw[i].brace = "}"
         THEN IF depth - 1 = 0 THEN i ELSE WalkDepth(raw, i + 1, depth - 1)
    ELSE WalkDepth(raw, i + 1, depth)

\* split(fence)[1]?.split(fence)[0]?.trim() ?? raw
FencedPiece(a, raw) == IF a = Undefined THEN raw ELSE Trim(SplitAt0(a, "FENCE"))

\* The piece between the first fence pair, or raw when there is none.
Unfence(raw) ==
    IF Includes(raw, "FENCEJSON") THEN FencedPiece(SplitAt1(raw, "FENCEJSON"), raw)
    ELSE IF Includes(raw, "FENCE") THEN FencedPiece(SplitAt1(raw, "FENCE"), raw)
    ELSE raw

NoneParsed == [ok |-> FALSE, val |-> EmptyObject]

\* The outcome of one attempt: what it parsed, else the next attempt.
ParsedOr(p, next) == IF p.ok THEN [ok |-> TRUE, val |-> p.val] ELSE next

\* The third attempt: the text from the first opening brace to the brace
\* that closes it.
SliceAttempt(raw, start, end) ==
    IF end = 0 THEN NoneParsed
    ELSE ParsedOr(JsonParse(SubSeq(raw, start, end)), NoneParsed)

DepthAttempt(raw, S) ==
    IF S = {} THEN NoneParsed
    ELSE SliceAttempt(raw, Min(S), WalkDepth(raw, Min(S), 0))

\* The second attempt: the text between the first fence pair.
FenceAttempt(raw) ==
    ParsedOr(JsonParse(raw), DepthAttempt(raw, BracePositions(raw, "{")))

\* The first attempt: the whole trimmed text.
TrimmedAttempt(t) ==
    IF t = <<>> THEN NoneParsed
    ELSE ParsedOr(JsonParse(t), FenceAttempt(Unfence(t)))

\* The attempts of extractJson in their order: ok says that one of them
\* parsed, val is what it parsed.
TryExtract(text) == TrimmedAttempt(Trim(text))

\* A variant of ExtractFallback: null in the place of the empty object.
ExtractFallbackNull == JsonValue("null", <<>>)

\* What extractJson returns when no attempt parsed.
ExtractFallback == EmptyObject

ValueOf(r) == IF r.ok THEN r.val ELSE ExtractFallback

extractJson(text) == ValueOf(TryExtract(text))

\* --------------------------------------------------------------- generate

\* One part of a candidate's content: hasText says that the part has a text
\* property holding a string.
TextPart(t) == [hasText |-> TRUE, text |-> t]
OtherPart == [hasText |-> FALSE, text |-> <<>>]

RECURSIVE TrimmedTexts(_)
TrimmedTexts(parts) ==
    IF parts = <<>> THEN <<>>
    ELSE LET p == Head(parts)
         IN (IF p.hasText /\ Trim(p.text) # <<>> THEN <<Trim(p.text)>> ELSE <<>>)
            \o TrimmedTexts(Tail(parts))

HasBraces(t) == BracePositions(t, "{") # {} /\ BracePositions(t, "}") # {}

Max(S) == CHOOSE x \in S : \A y \in S : x >= y

\* The text generate returns for a response: the last part that holds both
\* braces, else the last part, else the empty string.
GenerateText(parts) ==
    LET texts == TrimmedTexts(parts)
        J == {i \in 1..Len(texts) : HasBraces(texts[i])}
    IN IF texts = <<>> THEN <<>>
       ELSE IF J # {} THEN texts[Max(J)]
       ELSE texts[Len(texts)]

\* ------------------------------------------------------- field extraction

Absent == [key |-> "", type |-> "undefined", str |-> <<>>, num |-> 0, list |-> <<>>]

\* out.key on a parsed value that is not null: the last member of that name
\* of an object, undefined on anything else.
Field(out, key) ==
    LET J == {i \in 1..Len(out.members) : out.members[i].key = key}
    IN IF out.type = "object" /\ J # {} THEN out.members[Max(J)] ELSE Absent

StringOr(f, default) == IF f.type = "string" THEN f.str ELSE default
NumberOr(f, default) == IF f.type = "number" THEN f.num ELSE default

RECURSIVE StringsOf(_)
StringsOf(list) ==
    IF list = <<>> THEN <<>>
    ELSE (IF Head(list).type = "string" THEN <<Head(list).str>> ELSE <<>>)
         \o StringsOf(Tail(list))

\* Array.isArray(v) ? v.filter(string) : []
StringListOr(f) == IF f.type = "array" THEN StringsOf(f.list) ELSE <<>>

\* Reading a property of null throws a TypeError.
ThrowsOnAccess(out) == out.type = "null"

InferVersionResult(out) ==
    [inferred_version |-> StringOr(Field(out, "inferred_version"), <<"unknown">>),
     confidence       |-> NumberOr(Field(out, "confidence"), 0),
     evidence         |-> StringListOr(Field(out, "evidence")),
     ambiguity_note   |-> StringOr(Field(out, "ambiguity_note"), <<>>)]

CausalResult(out) ==
    [root_cause      |-> StringOr(Field(out, "root_cause"), <<>>),
     contradictions  |-> StringListOr(Field(out, "contradictions")),
     risk            |-> StringOr(Field(out, "risk"), <<>>),
     fix_steps       |-> StringListOr(Field(out, "fix_steps")),
     verification    |-> StringOr(Field(out, "verification"), <<>>),
     sources         |-> StringListOr(Field(out, "sources")),
     reasoning_trace |-> StringListOr(Field(out, "reasoning_trace")),
     truth_gaps      |-> StringListOr(Field(out, "truth_gaps"))]

VerificationSteps(out) == StringListOr(Field(out, "verification_steps"))

NoVersion == InferVersionResult(EmptyObject)
NoCausal == CausalResult(EmptyObject)

\* ------------------------------------------------------ words and strings

\* String.prototype.trim on a string of words.
RECURSIVE TrimWordsLeft(_)
TrimWordsLeft(s) ==
    IF s # <<>> /\ Head(s) = " " THEN TrimWordsLeft(Tail(s)) ELSE s

RECURSIVE TrimWordsRight(_)
TrimWordsRight(s) ==
    IF s # <<>> /\ s[Len(s)] = " " THEN TrimWordsRight(SubSeq(s, 1, Len(s) - 1)) ELSE s

TrimWords(s) == TrimWordsRight(TrimWordsLeft(s))

HasWord(s, w) == \E i \in 1..Len(s) : s[i] = w

\* toLowerCase / toUpperCase of the words the model uses.
Lower(w) ==
    CASE w = "Slack" -> "slack"
      [] w = "Commit" -> "commit"
      [] w = "8A2F4C9" -> "8a2f4c9"
      [] w = "AUTH-101" -> "auth-101"
      [] OTHER -> w

Upper(w) ==
    CASE w = "auth-101" -> "AUTH-101"
      [] w = "slack" -> "SLACK"
      [] w = "commit" -> "COMMIT"
      [] w = "8a2f4c9" -> "8A2F4C9"
      [] w = "8a2f4c9d" -> "8A2F4C9D"
      [] OTHER -> w

\* Whether word w contains h as a substring: itself, or a longer hash that
\* starts with it.
WordContains(w, h) == h # "" /\ (w = h \/ (w = "8a2f4c9d" /\ h = "8a2f4c9"))

\* Words with a run of at least four hex digits: hashes, and also dates
\* (the year) and plain words spelled in a..f.
HexWords == {"8a2f4c9", "8a2f4c9d", "8A2F4C9", "deadbeef", "2025-09-12", "facade"}
\* Words that are a # followed by word characters.
ChannelWords == {"#eng"}
\* Words matching (SEC|AUTH|JIRA|PROJ)-\d+, in any case.
TicketWords == {"AUTH-101", "auth-101", "SEC-7"}

\* /slack|#\w+/i
MatchesSlack(s) ==
    \E i \in 1..Len(s) : Lower(s[i]) = "slack" \/ s[i] \in ChannelWords
\* /commit|[\da-f]{4,}/i
MatchesCommit(s) ==
    \E i \in 1..Len(s) : Lower(s[i]) = "commit" \/ s[i] \in HexWords
\* /(SEC|AUTH|JIRA|PROJ)-\d+/i
MatchesJira(s) == \E i \in 1..Len(s) : s[i] \in TicketWords

\* ---------------------------------------------------------------- dataset

\* The stored corpora, as loadDataset reads them.
FullDataset ==
    [slack |-> << [date |-> "2025-09-10", channel |-> "eng", author |-> "ana",
                   message |-> "raise timeout"],
                  [date |-> "2025-09-12", channel |-> "eng", author |-> "bo",
                   message |-> "revert later"] >>,
     git |-> << [hash |-> "8a2f4c9d", short_hash |-> "8a2f4c9", date |-> "2025-09-11",
                 author |-> "ana", message |-> "timeout 90", change |-> "config",
                 diff |-> "+90"],
                [hash |-> "deadbeef", short_hash |-> "deadbee", date |-> "2025-09-13",
                 author |-> "bo", message |-> "cleanup", change |-> "none",
                 diff |-> ""] >>,
     jira |-> << [id |-> "AUTH-101", title |-> "Staging login latency",
                  status |-> "Resolved", comment |-> "fixed"] >>,
     docs |-> <<"docs">>,
     releases |-> <<"releases">>]

EmptyDataset ==
    [slack |-> <<>>, git |-> <<>>, jira |-> <<>>, docs |-> <<>>, releases |-> <<>>]

Datasets == {FullDataset, EmptyDataset}

\* getDataset(): the files are read anew on every call.
getDataset(files) == files

\* The values an entry of dataset_overrides takes: null, the empty string,
\* and anything else.
NullValue == [kind |-> "null", val |-> <<>>]
EmptyString == [kind |-> "empty", val |-> <<>>]
Given(v) == [kind |-> "value", val |-> v]

\* A request's dataset_overrides: absent, or an object of entries.
NoOverrides == [given |-> FALSE, entries |-> <<>>]
OverridesOf(entries) == [given |-> TRUE, entries |-> entries]

\* Overrides that replace the chat corpus and carry two entries buildContext
\* ignores.
SlackOverrides ==
    OverridesOf([slack |-> Given(<< [date |-> "2025-09-12", channel |-> "ops",
                                     author |-> "cy", message |-> "keep timeout"] >>),
                 git |-> NullValue,
                 docs |-> EmptyString])

OverrideSets == {NoOverrides, SlackOverrides}

\* The data buildContext renders: the dataset as loaded, or a copy of it in
\* which every entry of the overrides that is neither null nor the empty
\* string replaces the corpus of its key.
ContextData(datasetOverrides, data) ==
    IF ~datasetOverrides.given THEN data
    ELSE LET e == datasetOverrides.entries
             applied == {k \in DOMAIN e : e[k].kind = "value"}
         IN [k \in DOMAIN data \cup applied |->
                IF k \in applied THEN e[k].val ELSE data[k]]

\* The data citation resolution reads: getSourceDetails is called with the
\* citations alone, so its dataset parameter falls back to getDataset().
ResolverData(datasetOverrides, data) == data

\* One consultation of the dataset by a stage of a run.
Consult(stage, data) == [stage |-> stage, data |-> data]

\* ------------------------------------------------------- getSourceDetails

SourceDetail(typ, label, content) == [type |-> typ, label |-> label, content |-> content]
NoEntry == [found |-> FALSE, entry |-> SourceDetail("", <<>>, <<>>)]
Entry(typ, label, content) == [found |-> TRUE, entry |-> SourceDetail(typ, label, content)]

SlackContent(item) ==
    <<"[", item.date, "] #", item.channel, " - ", item.author, ": ", item.message>>

\* The chat branch: the first message whose date the citation contains, else
\* the first message, else nothing.
SlackEntry(s, data) ==
    LET J == {i \in 1..Len(data.slack) : data.slack[i].date # "" /\ HasWord(s, data.slack[i].date)}
    IN IF J # {} THEN Entry("slack", s, SlackContent(data.slack[Min(J)]))
       ELSE IF data.slack # <<>> THEN Entry("slack", s, SlackContent(data.slack[1]))
       ELSE NoEntry

\* A variant of CommitHit that compares the full hash only.
CommitHitFullHash(s, item) ==
    LET h == Lower(item.hash)
    IN h # "" /\ \E i \in 1..Len(s) : WordContains(Lower(s[i]), h)

CommitHit(s, item) ==
    LET h == Lower(item.hash)
        short == Lower(item.short_hash)
    IN h # "" /\ \E i \in 1..Len(s) :
           WordContains(Lower(s[i]), h) \/ WordContains(Lower(s[i]), short)

CommitContent(it) ==
    <<"commit ", it.hash, " (", it.date, ") - ", it.author, "\n  ", it.message,
      "\n  ", it.change>>
    \o (IF it.diff # "" THEN <<"\n  Diff:\n  ", it.diff>> ELSE <<>>)

\* The commit branch: the first record whose hash or short hash the
\* lower-cased citation contains.
CommitEntry(s, data) ==
    LET J == {i \in 1..Len(data.git) : CommitHit(s, data.git[i])}
    IN IF J # {} THEN Entry("git", s, CommitContent(data.git[Min(J)])) ELSE NoEntry

TicketContent(it) ==
    <<it.id, " - ", it.title, " (", it.status, ")\n  ", it.comment>>

\* The ticket branch: the first ticket whose upper-cased id the upper-cased
\* citation contains.
TicketEntry(s, data) ==
    LET J == {i \in 1..Len(data.jira) :
                 /\ Upper(data.jira[i].id) # ""
                 /\ \E k \in 1..Len(s) : Upper(s[k]) = Upper(data.jira[i].id)}
    IN IF J # {} THEN Entry("jira", s, TicketContent(data.jira[Min(J)])) ELSE NoEntry

\* The fallback: the documents, or the citation itself when there are none.
DocumentEntry(s, data) ==
    LET content == data.docs \o
                   (IF data.releases # <<>> THEN <<"\n\n---\n\n">> \o data.releases ELSE <<>>)
    IN Entry("document", s, IF content = <<>> THEN s ELSE content)

\* The detail of one trimmed citation: the branches in their order, each
\* tried only when no earlier one produced an entry.
ResolveOne(s, data) ==
    LET e1 == IF MatchesSlack(s) THEN SlackEntry(s, data) ELSE NoEntry
        e2 == IF ~e1.found /\ MatchesCommit(s) THEN CommitEntry(s, data) ELSE e1
        e3 == IF ~e2.found /\ MatchesJira(s) THEN TicketEntry(s, data) ELSE e2
        e4 == IF ~e3.found THEN DocumentEntry(s, data) ELSE e3
    IN e4.entry

\* A variant of ResolveFrom that resolves a repeated citation again.
RECURSIVE ResolveFromAll(_, _, _, _)
ResolveFromAll(sources, data, seen, out) ==
    IF sources = <<>> THEN out
    ELSE LET s == TrimWords(Head(sources))
         IN IF s = <<>>
            THEN ResolveFromAll(Tail(sources), data, seen, out)
            ELSE ResolveFromAll(Tail(sources), data, seen,
                                Append(out, ResolveOne(s, data)))

\* The loop over the citations.  s, the trimmed citation of a turn, is bound
\* as a value, so that the trimming is evaluated once per turn.
RECURSIVE ResolveFrom(_, _, _, _)
ResolveFrom(sources, data, seen, out) ==
    IF sources = <<>> THEN out
    ELSE CHOOSE r \in
           { IF s = <<>> \/ s \in seen
             THEN ResolveFrom(Tail(sources), data, seen, out)
             ELSE ResolveFrom(Tail(sources), data, seen \cup {s},
                              Append(out, ResolveOne(s, data)))
             : s \in {TrimWords(Head(sources))} } : TRUE

getSourceDetails(sources, data) ==
    IF sources = <<>> THEN <<>> ELSE ResolveFrom(sources, data, {}, <<>>)

\* ----------------------------------------------------------- model answers

Words(n) == [i \in 1..n |-> StrItem(<<ToString(i)>>)]

\* The ways a model answer wraps one JSON body.
Wrappings(body) ==
    { body,
      <<WS>> \o body \o <<WS>>,
      <<Prose>> \o body \o <<Prose>>,
      <<Prose, FenceJson, WS>> \o body \o <<WS, Fence>>,
      <<Fence>> \o body \o <<Fence, Prose>>,
      body \o <<RB>> }

Obj(members) == <<LB>> \o members \o <<RB>>

\* Answers that hold no object at all, or a broken one.
DegenerateTexts ==
    { <<>>, <<WS>>, <<Prose, Prose>>, <<Lit("null")>>, <<Lit("array")>>,
      <<Lit("number")>>, <<Lit("string")>>, <<LB, Prose, RB>>, <<LB>>,
      <<Prose, LB, Key("inferred_version"), LB, RB, RB, Prose>> }

InferBodies ==
    { Obj(<<>>),
      Obj(<<Mem("inferred_version", "string", <<"v2.4">>, 0, <<>>),
            Mem("confidence", "number", <<>>, 90, <<>>),
            Mem("evidence", "array", <<>>, 0, Words(2)),
            Mem("ambiguity_note", "string", <<"note">>, 0, <<>>)>>),
      Obj(<<Mem("inferred_version", "string", <<"v2.5">>, 0, <<>>),
            Mem("confidence", "number", <<>>, 150, <<>>),
            Mem("evidence", "array", <<>>, 0, Words(MaxList))>>),
      Obj(<<Mem("inferred_version", "number", <<>>, 7, <<>>),
            Mem("confidence", "string", <<"high">>, 0, <<>>),
            Mem("evidence", "string", <<"e">>, 0, <<>>),
            Mem("ambiguity_note", "null", <<>>, 0, <<>>)>>),
      Obj(<<Mem("confidence", "number", <<>>, 40, <<>>),
            Mem("evidence", "array", <<>>, 0, <<StrItem(<<"1">>), NumItem>>)>>) }

InferTexts == DegenerateTexts \cup UNION {Wrappings(b) : b \in InferBodies}

\* A chat citation, a commit citation, and the chat citation again.
ChatCitations ==
    << StrItem(<<"Slack", " ", "2025-09-12">>), StrItem(<<"Commit", " ", "8a2f4c9">>),
       StrItem(<<"Slack", " ", "2025-09-12">>) >>

CitationLists ==
    { <<>>,
      ChatCitations,
      << StrItem(<<" ", "AUTH-101">>), StrItem(<<"README">>), NumItem, StrItem(<<" ">>) >> }

\* A complete finding with n contradictions and the citations cl.
FindingBody(n, cl) ==
    Obj(<<Mem("root_cause", "string", <<"cause">>, 0, <<>>),
          Mem("contradictions", "array", <<>>, 0, Words(n)),
          Mem("risk", "string", <<"high">>, 0, <<>>),
          Mem("fix_steps", "array", <<>>, 0, Words(1)),
          Mem("verification", "string", <<"check">>, 0, <<>>),
          Mem("sources", "array", <<>>, 0, cl),
          Mem("reasoning_trace", "array", <<>>, 0, Words(n)),
          Mem("truth_gaps", "array", <<>>, 0, Words(1))>>)

ReasonBodies ==
    { Obj(<<>>),
      Obj(<<Mem("root_cause", "number", <<>>, 1, <<>>),
            Mem("contradictions", "string", <<"c">>, 0, <<>>),
            Mem("sources", "null", <<>>, 0, <<>>),
            Mem("reasoning_trace", "array", <<>>, 0, <<NumItem>>)>>),
      Obj(<<Mem("root_cause", "string", <<"drift">>, 0, <<>>),
            Mem("contradictions", "array", <<>>, 0, <<NumItem>>),
            Mem("risk", "string", <<"low">>, 0, <<>>)>>) }
    \cup
    { FindingBody(n, cl) : n \in {0, 1, MaxList - 2}, cl \in CitationLists }

ReasonTexts == DegenerateTexts \cup UNION {Wrappings(b) : b \in ReasonBodies}

VerifyBodies ==
    { Obj(<<>>),
      Obj(<<Mem("verification_steps", "string", <<"s">>, 0, <<>>)>>),
      Obj(<<Mem("verification_steps", "array", <<>>, 0, Words(2))>>) }

VerifyTexts == DegenerateTexts \cup UNION {Wrappings(b) : b \in VerifyBodies}

\* What generateContent resolves to: the parts of the first candidate.  Most
\* answers are a single text part; some have none, a part without text, or
\* prose in a part before or after the part with the JSON body.
Responses(texts, bodies) ==
    { <<TextPart(t)>> : t \in texts }
    \cup { <<>>, <<OtherPart>>, <<TextPart(<<WS>>), TextPart(<<Prose>>)>> }
    \cup { <<TextPart(<<Prose>>), TextPart(t)>> : t \in bodies }
    \cup { <<TextPart(t), OtherPart, TextPart(<<Prose, Prose>>)>> : t \in bodies }

\* The answers of the three calls of the pipeline.
InferResponses == Responses(InferTexts, InferBodies)
ReasonResponses == Responses(ReasonTexts, ReasonBodies)
VerifyResponses == Responses(VerifyTexts, VerifyBodies)

\* Error messages of a failed generateContent call, as words.
UpstreamMessages ==
    { <<"fetch failed">>, <<"quota", " ", "not set">>,
      <<"API key not valid">>, <<"invalid", " ", "GEMINI_API_KEY">> }

\* The message of the Error getGemini throws.
MissingKeyMessage == <<"GEMINI_API_KEY", " or ", "GOOGLE_API_KEY", " ", "not set">>

\* The message of the TypeError thrown by a property read on null.
TypeErrorMessage == <<"Cannot read properties of null">>

BundleBodies ==
    { Obj(<<>>),
      Obj(<<Mem("post_mortem", "string", <<" ", "pm", " ">>, 0, <<>>),
            Mem("pr_diff", "string", <<"diff">>, 0, <<>>),
            Mem("slack_summary", "string", <<"sum">>, 0, <<>>)>>),
      Obj(<<Mem("incident_report", "string", <<"x">>, 0, <<>>),
            Mem("remedy_patch", "string", <<>>, 0, <<>>),
            Mem("slack_summary", "null", <<>>, 0, <<>>)>>),
      Obj(<<Mem("post_mortem", "string", <<" ">>, 0, <<>>),
            Mem("incident_report", "string", <<"y">>, 0, <<>>),
            Mem("remedy_patch", "number", <<>>, 3, <<>>)>>) }

BundleTexts == DegenerateTexts \cup UNION {Wrappings(b) : b \in BundleBodies}

\* Free-text answers of the documentation and patch generators.
MarkdownTexts == { <<>>, <<Prose>>, <<WS, Prose, Prose, WS>> }

\* ----------------------------------------------------------- request bodies

Undef == [type |-> "undefined", val |-> <<>>]
NonString == [type |-> "number", val |-> <<>>]
JsString(s) == [type |-> "string", val |-> s]

\* The values a required string field of a body takes: missing, not a
\* string, empty, whitespace only, and a proper one with whitespace around.
FieldValues ==
    { Undef, NonString, JsString(<<>>), JsString(<<" ">>),
      JsString(<<" ", "q", " ">>) }

\* A variant of TrimmedString that leaves the whitespace around the value.
UntrimmedString(v) == IF v.type = "string" THEN v.val ELSE <<>>

\* typeof v === "string" ? v.trim() : ""
TrimmedString(v) == IF v.type = "string" THEN TrimWords(v.val) ELSE <<>>

AskBodies ==
    [query : FieldValues, include_sources : {<<>>},
     dataset_overrides : OverrideSets,
     image : BOOLEAN, prior : BOOLEAN,
     finding_id : {Undef}, target : {Undef}, action : {Undef}]

PatchBodies ==
    [query : {Undef}, include_sources : {<<>>}, dataset_overrides : {NoOverrides},
     image : {FALSE}, prior : {FALSE},
     finding_id : FieldValues, target : FieldValues, action : FieldValues]

EmptyBody == [query |-> Undef, include_sources |-> <<>>,
              dataset_overrides |-> NoOverrides, image |-> FALSE,
              prior |-> FALSE, finding_id |-> Undef, target |-> Undef,
              action |-> Undef]

\* ------------------------------------------------------ results and events

AssembleResult(query, vr, c, details) ==
    [query           |-> query,
     inferred_version |-> vr.inferred_version,
     confidence      |-> vr.confidence,
     evidence        |-> vr.evidence,
     ambiguity_note  |-> vr.ambiguity_note,
     root_cause      |-> c.root_cause,
     contradictions  |-> c.contradictions,
     risk            |-> c.risk,
     fix_steps       |-> c.fix_steps,
     verification    |-> c.verification,
     sources         |-> c.sources,
     source_details  |-> details,
     reasoning_trace |-> c.reasoning_trace,
     truth_gaps      |-> c.truth_gaps]

NoResult == AssembleResult(<<>>, NoVersion, NoCausal, <<>>)

\* One frame of the event stream (sse): the event name and its data.
StepEvent(msg) == [event |-> "step", message |-> msg]
ResultEvent(r) == [event |-> "result", result |-> r]
ErrorEvent(msg) == [event |-> "error", detail |-> msg]

\* An HTTP response: its status and what its body holds.
Response(status, kind) == [status |-> status, kind |-> kind]
NoResponse == Response(0, "none")
DetailResponse(status, msg) == [status |-> status, kind |-> "detail", detail |-> msg]
DatasetResponse(data) == [status |-> 200, kind |-> "dataset", dataset |-> data]
ResultResponse(r) == [status |-> 200, kind |-> "result", result |-> r]
MarkdownResponse(text) == [status |-> 200, kind |-> "markdown", markdown |-> text]
BundleResponse(b) == [status |-> 200, kind |-> "bundle", bundle |-> b]

RECURSIVE StepsOf(_, _)
\* One step event per string of a list, each behind a prefix.
StepsOf(prefix, list) ==
    IF list = <<>> THEN <<>>
    ELSE <<StepEvent(<<prefix>> \o Head(list))>> \o StepsOf(prefix, Tail(list))

\* How many evidence lines the stream narrates.
EvidenceShown == 3

Take(list, n) == SubSeq(list, 1, IF Len(list) < n THEN Len(list) ELSE n)

\* The steps the stream emits before the infer call.
StartSteps(b) ==
    <<StepEvent(<<"Loading dataset">> \o
                (IF b.include_sources # <<>> THEN b.include_sources
                 ELSE <<"Slack, Git, Jira, docs, releases">>))>>
    \o (IF b.image THEN <<StepEvent(<<"Including attached image">>)>> ELSE <<>>)
    \o (IF b.prior THEN <<StepEvent(<<"Building on prior session knowledge">>)>> ELSE <<>>)
    \o <<StepEvent(<<"Inferring version">>)>>

\* A variant of InferredSteps that narrates every evidence line.
InferredStepsAllEvidence(vr) ==
    <<StepEvent(<<"Inferred version: ">> \o vr.inferred_version
                \o <<ToString(vr.confidence), "% confidence">>)>>
    \o StepsOf("  Evidence: ", vr.evidence)
    \o <<StepEvent(<<"Loading sources into context">>),
         StepEvent(<<"Reasoning over Slack intent vs Git vs docs">>)>>

\* The steps between the infer call's return and the reason call.
InferredSteps(vr) ==
    <<StepEvent(<<"Inferred version: ">> \o vr.inferred_version
                \o <<ToString(vr.confidence), "% confidence">>)>>
    \o StepsOf("  Evidence: ", Take(vr.evidence, EvidenceShown))
    \o <<StepEvent(<<"Loading sources into context">>),
         StepEvent(<<"Reasoning over Slack intent vs Git vs docs">>)>>

\* The steps after the reason call's return.
ReasonedSteps(c) ==
    <<StepEvent(<<"Causal analysis complete">>)>> \o StepsOf("  ", c.reasoning_trace)

VerifyingStep == StepEvent(<<"Verifying inferred truth">>)
VerifiedSteps(steps) ==
    StepsOf("  ", steps) \o <<StepEvent(<<"Verification complete">>)>>
SkippedStep == StepEvent(<<"  (Verification skipped)">>)

\* A variant of FinishEvents that narrates a step after the result.
FinishEventsStepLast(query, vr, c, data) ==
    <<StepEvent(<<"Resolving source citations">>),
      ResultEvent(AssembleResult(query, vr, c, getSourceDetails(c.sources, data))),
      StepEvent(<<"Sources resolved">>)>>

\* A variant of FinishEvents whose result carries only the evidence the
\* stream narrated.
FinishEventsShownEvidence(query, vr, c, data) ==
    <<StepEvent(<<"Resolving source citations">>),
      StepEvent(<<"Sources resolved">>),
      ResultEvent(AssembleResult(query,
                                 [vr EXCEPT !.evidence = Take(vr.evidence, EvidenceShown)],
                                 c, getSourceDetails(c.sources, data)))>>

\* Citation resolution and the result event that ends a successful stream.
FinishEvents(query, vr, c, data) ==
    <<StepEvent(<<"Resolving source citations">>),
      StepEvent(<<"Sources resolved">>),
      ResultEvent(AssembleResult(query, vr, c, getSourceDetails(c.sources, data)))>>

\* --------------------------------------------------------- error handling

MsgIncludes(msg, w) == HasWord(msg, w)

\* The status a route's catch block answers with.
CatchStatus(o, msg) ==
    IF o = "ask" /\ (MsgIncludes(msg, "GEMINI_API_KEY") \/ MsgIncludes(msg, "not set"))
    THEN 503 ELSE 500

\* The three strings of the bundle, or the TypeError of a trim on a value
\* that is not a string.
BundleValue(out, primary, alternate) ==
    LET p == Field(out, primary)
        a == Field(out, alternate)
    IN IF p.type = "string" THEN [ok |-> TRUE, val |-> p.str]
       ELSE IF a.type \in {"undefined", "null"} THEN [ok |-> TRUE, val |-> <<>>]
       ELSE IF a.type = "string" THEN [ok |-> TRUE, val |-> a.str]
       ELSE [ok |-> FALSE, val |-> <<>>]

Placeholder == <<"(No content generated.)">>
OrPlaceholder(v) == IF TrimWords(v) = <<>> THEN Placeholder ELSE TrimWords(v)

\* ------------------------------------------------------------------ state

VARIABLES
    apiKey,         \* whether GEMINI_API_KEY or GOOGLE_API_KEY is set
    store,          \* the dataset files
    served,         \* requests accepted so far
    op,             \* the route of the request in progress
    body,           \* its parsed body
    query,          \* its trimmed query
    pc,             \* where its handler is suspended
    calls,          \* the generateContent calls issued for it, in order
    stages,         \* the pipeline stages entered for it, in order
    consulted,      \* per stage of it that read the dataset: the data it used
    provided,       \* the contents GET /api/dataset answered with so far
    events,         \* the frames enqueued on its event stream, in order
    closed,         \* whether its event stream is closed
    response,       \* its HTTP response
    versionResult,  \* what inferVersion returned
    causal,         \* what causalReasoning returned
    cause,          \* why it failed: "", client, nokey, upstream, typeerror
    verifyError,    \* the error its verification stage raised, when it did
    answers,        \* per resolved call: its name and whether an attempt of
                    \* extractJson parsed the text
    fn,             \* the function a direct call applies, "none" in a server run
    arg,            \* its argument
    ret,            \* what it returned, NotCalled before the call
    sent,           \* the events of the stream the page's onAsk consumes
    wire,           \* the part of that stream reader.read() has not delivered
    reader,         \* onAsk's position and its buffer
    page,           \* the page's state: loading, error, result, memory (the
                    \* session memory), thinkingSteps,
                    \* thinkingOpen
    runs,           \* two handler invocations in progress at once, each with
                    \* its own locals and the settlements it was given
    asks,           \* the invocations of the page's onAsk so far, in order of
                    \* their start: position, what was sent, what is to come
    loads,          \* the FileReader loads QueryBox.submit started and whose
                    \* onload has not run, each with the render it closed over
    box,            \* QueryBox's state: whether an image is attached
    log             \* what happened on the page, in order: submits, result
                    \* events received, clearings of the session

\* The page's side.
consumer == <<sent, wire, reader, page>>

\* A session on the page.
session == <<asks, loads, box, log>>

\* The invocations in progress at once, on the server and on the page.
others == <<runs, session>>

\* What a server run leaves alone.
aside == <<fn, arg, ret, consumer, others>>

vars == <<apiKey, store, served, op, body, query, pc, calls, stages, consulted,
          provided, events, closed, response, versionResult, causal, cause,
          verifyError, answers, aside>>

NotCalled == [called |-> FALSE]
Returned(v) == [called |-> TRUE, val |-> v]

\* A nullable piece of the page's state.
Unset == [set |-> FALSE, val |-> <<>>]
SetTo(v) == [set |-> TRUE, val |-> v]

\* The page as useState initialises it.
BlankPage ==
    [loading |-> FALSE, error |-> Unset, result |-> Unset, memory |-> Unset,
     thinkingSteps |-> <<>>,
     thinkingOpen |-> FALSE]

IdleReader == [pc |-> "idle", buffer |-> <<>>, parsed |-> <<>>]

\* The locals of a handler invocation that has not been entered, and the
\* settlements given to it.
IdleRun ==
    [op |-> "none", body |-> EmptyBody, query |-> <<>>, pc |-> "idle",
     calls |-> <<>>, events |-> <<>>, closed |-> FALSE, response |-> NoResponse,
     versionResult |-> NoVersion, causal |-> NoCausal, given |-> <<>>]

\* No two invocations are in progress at once, and the page is untouched.
OthersIdle ==
    /\ runs = <<IdleRun, IdleRun>>
    /\ asks = <<>>
    /\ loads = <<>>
    /\ box = [image |-> FALSE]
    /\ log = <<>>

\* No question has been asked on the page.
ConsumerIdle ==
    /\ sent = <<>>
    /\ wire = <<>>
    /\ reader = IdleReader
    /\ page = BlankPage

Init ==
    /\ apiKey \in BOOLEAN
    /\ store \in Datasets
    /\ served = 0
    /\ op = "none"
    /\ body = EmptyBody
    /\ query = <<>>
    /\ pc = "idle"
    /\ calls = <<>>
    /\ stages = <<>>
    /\ consulted = <<>>
    /\ provided = <<>>
    /\ events = <<>>
    /\ closed = FALSE
    /\ response = NoResponse
    /\ versionResult = NoVersion
    /\ causal = NoCausal
    /\ cause = ""
    /\ verifyError = <<>>
    /\ answers = <<>>
    /\ fn = "none"
    /\ arg = <<>>
    /\ ret = NotCalled
    /\ ConsumerIdle
    /\ OthersIdle

\* A variant of Accept that writes the request's overrides into the files.
AcceptPersistsOverrides(o, b) ==
    /\ pc = "idle"
    /\ served < MaxRequests
    /\ served' = served + 1
    /\ op' = o
    /\ body' = b
    /\ versionResult' = NoVersion
    /\ causal' = NoCausal
    /\ verifyError' = <<>>
    /\ answers' = <<>>
    /\ store' = ContextData(b.dataset_overrides, store)
    /\ UNCHANGED <<aside, apiKey>>

\* A handler is entered: nothing of an earlier request is left, and no
\* handler writes the dataset files.
Accept(o, b) ==
    /\ pc = "idle"
    /\ served < MaxRequests
    /\ served' = served + 1
    /\ op' = o
    /\ body' = b
    /\ versionResult' = NoVersion
    /\ causal' = NoCausal
    /\ verifyError' = <<>>
    /\ answers' = <<>>
    /\ UNCHANGED <<aside, apiKey, store>>

\* A 400 answer before anything runs.
Reject(resp, evs) ==
    /\ response' = resp
    /\ events' = evs
    /\ closed' = (evs # <<>>)
    /\ pc' = "done"
    /\ cause' = "client"
    /\ calls' = <<>>
    /\ stages' = <<>>
    /\ consulted' = <<>>

\* The first model call of a handler.  inferVersion and emitDocs build their
\* context before they call generate; generate's first line is getGemini:
\* with a credential the call is issued and the handler suspends, without
\* one getGemini throws.
FirstCall(o, name, evs, resp) ==
    /\ stages' = <<name>>
    /\ consulted' = IF name \in {"infer", "emit_docs"}
                    THEN <<Consult(name, ContextData(body'.dataset_overrides,
                                                     getDataset(store)))>>
                    ELSE <<>>
    /\ IF apiKey
       THEN /\ calls' = <<name>>
            /\ pc' = IF name \in {"infer"} THEN "await_infer" ELSE "await_derivative"
            /\ cause' = ""
            /\ events' = evs
            /\ closed' = FALSE
            /\ response' = resp
       ELSE /\ calls' = <<>>
            /\ pc' = "done"
            /\ cause' = "nokey"
            /\ IF o = "stream"
               THEN /\ events' = Append(evs, ErrorEvent(MissingKeyMessage))
                    /\ closed' = TRUE
                    /\ response' = resp
               ELSE /\ events' = evs
                    /\ closed' = FALSE
                    /\ response' = DetailResponse(CatchStatus(o, MissingKeyMessage),
                                                  MissingKeyMessage)

\* A variant of Throw whose stream neither reports the error nor closes.
ThrowLeavesOpen(msg, why) ==
    /\ pc' = "done"
    /\ cause' = why
    /\ IF op = "stream"
       THEN UNCHANGED <<events, closed, response>>
       ELSE /\ response' = DetailResponse(CatchStatus(op, msg), msg)
            /\ UNCHANGED <<events, closed>>

\* The catch block of the route in progress.
Throw(msg, why) ==
    /\ pc' = "done"
    /\ cause' = why
    /\ IF op = "stream"
       THEN /\ events' = Append(events, ErrorEvent(msg))
            /\ closed' = TRUE
            /\ UNCHANGED response
       ELSE /\ response' = DetailResponse(CatchStatus(op, msg), msg)
            /\ UNCHANGED <<events, closed>>

\* ------------------------------------------------------------- ask routes

\* POST /api/ask
AskPost(b) ==
    /\ Accept("ask", b)
    /\ UNCHANGED provided
    /\ LET q == TrimmedString(b.query)
       IN /\ query' = q
          /\ IF q = <<>>
             THEN Reject(DetailResponse(400, <<"query required">>), <<>>)
             ELSE FirstCall("ask", "infer", <<>>, NoResponse)

\* POST /api/ask-stream, up to the first await of the stream's start
StreamPost(b) ==
    /\ Accept("stream", b)
    /\ UNCHANGED provided
    /\ LET q == TrimmedString(b.query)
       IN /\ query' = q
          /\ IF q = <<>>
             THEN Reject(Response(400, "stream"), <<ErrorEvent(<<"query required">>)>>)
             ELSE FirstCall("stream", "infer", StartSteps(b), Response(200, "stream"))

\* What extractJson makes of the text generate picks from the answer, for
\* every answer of each call.
InferOutcomes == {TryExtract(GenerateText(p)) : p \in InferResponses}
ReasonOutcomes == {TryExtract(GenerateText(p)) : p \in ReasonResponses}
VerifyOutcomes == {TryExtract(GenerateText(p)) : p \in VerifyResponses}

\* What the ghost variable answers records of one resolved call: whether
\* extractJson parsed the answer, and for the verify call what kind of value
\* its verification_steps member is.
Answer(name, r) ==
    [call |-> name, parsed |-> r.ok,
     steps |-> IF name = "verify"
               THEN Field(ValueOf(r), "verification_steps").type ELSE ""]

\* inferVersion returned vr: the handler goes on to the reason call.
Inferred(vr) ==
    /\ versionResult' = vr
    /\ stages' = Append(stages, "reason")
    /\ consulted' = Append(consulted,
                           Consult("reason", ContextData(body.dataset_overrides,
                                                         getDataset(store))))
    /\ calls' = Append(calls, "reason")
    /\ pc' = "await_reason"
    /\ events' = IF op = "stream" THEN events \o InferredSteps(vr) ELSE events
    /\ UNCHANGED <<closed, response, cause>>

\* The rest of inferVersion once extractJson returned out.
InferExtracted(out) ==
    IF ThrowsOnAccess(out)
    THEN /\ Throw(TypeErrorMessage, "typeerror")
         /\ UNCHANGED <<versionResult, calls, stages, consulted>>
    ELSE Inferred(InferVersionResult(out))

InferAnswered(r) ==
    /\ answers' = Append(answers, Answer("infer", r))
    /\ InferExtracted(ValueOf(r))

\* The infer call resolves with an answer of which extractJson makes r.
InferReturn(r) ==
    /\ pc = "await_infer"
    /\ InferAnswered(r)
    /\ UNCHANGED <<aside, provided, apiKey, store, served, op, body, query, causal, verifyError>>

\* A variant of InferFail that goes on to the reason call with the defaults.
InferFailSwallowed(msg) ==
    /\ pc = "await_infer"
    /\ cause' = "upstream"
    /\ versionResult' = NoVersion
    /\ stages' = Append(stages, "reason")
    /\ consulted' = Append(consulted,
                           Consult("reason", ContextData(body.dataset_overrides,
                                                         getDataset(store))))
    /\ calls' = Append(calls, "reason")
    /\ pc' = "await_reason"
    /\ UNCHANGED <<aside, provided, apiKey, store, served, op, body, query, events, closed,
                   response, causal, verifyError, answers>>

\* The infer call rejects.
InferFail(msg) ==
    /\ pc = "await_infer"
    /\ Throw(msg, "upstream")
    /\ UNCHANGED <<aside, provided, apiKey, store, served, op, body, query, calls, stages, consulted,
                   versionResult, causal, verifyError, answers>>

\* A variant of AfterReason that verifies on every entry point, whatever the
\* finding.
AfterReasonAlwaysVerify(o, c) == "verify"

\* The stage that follows causalReasoning: ask goes to citation resolution,
\* the stream verifies first when the finding has contradictions.
AfterReason(o, c) ==
    IF o = "ask" THEN "resolve"
    ELSE IF c.contradictions # <<>> THEN "verify"
    ELSE "resolve"

\* verifyContradiction's own guard: it calls the model only for a non-empty
\* list.
VerifyCallsModel(contradictions) == contradictions # <<>>

\* The end of a run: ask answers with the result, the stream emits its last
\* events and closes.
Finish(evs, c) ==
    /\ stages' = Append(stages, "resolve")
    /\ consulted' = IF c.sources = <<>> THEN consulted
                    ELSE Append(consulted,
                                Consult("resolve", ResolverData(body.dataset_overrides,
                                                                getDataset(store))))
    /\ pc' = "done"
    /\ IF op = "ask"
       THEN /\ response' = ResultResponse(
                   AssembleResult(query, versionResult, c,
                                  getSourceDetails(c.sources,
                                                   ResolverData(body.dataset_overrides,
                                                                getDataset(store)))))
            /\ UNCHANGED <<events, closed>>
       ELSE /\ events' = evs \o FinishEvents(query, versionResult, c,
                                              ResolverData(body.dataset_overrides,
                                                           getDataset(store)))
            /\ closed' = TRUE
            /\ UNCHANGED response

\* The verification stage of the stream, entered with the events so far.
Verify(evs, c) ==
    IF VerifyCallsModel(c.contradictions)
    THEN /\ stages' = Append(stages, "verify")
         /\ consulted' = Append(consulted,
                                Consult("verify", ContextData(body.dataset_overrides,
                                                              getDataset(store))))
         /\ calls' = Append(calls, "verify")
         /\ events' = Append(evs, VerifyingStep)
         /\ pc' = "await_verify"
         /\ UNCHANGED <<closed, response>>
    ELSE /\ Finish(Append(evs, VerifyingStep) \o VerifiedSteps(<<>>), c)
         /\ UNCHANGED calls

\* causalReasoning returned c.
Reasoned(c, evs) ==
    /\ causal' = c
    /\ UNCHANGED cause
    /\ IF AfterReason(op, c) = "verify"
       THEN Verify(evs, c)
       ELSE /\ Finish(evs, c)
            /\ UNCHANGED calls

ReasonedEvents(c) == IF op = "stream" THEN events \o ReasonedSteps(c) ELSE events

\* The rest of causalReasoning once extractJson returned out.
ReasonExtracted(out) ==
    IF ThrowsOnAccess(out)
    THEN /\ Throw(TypeErrorMessage, "typeerror")
         /\ UNCHANGED <<causal, calls, stages, consulted>>
    ELSE Reasoned(CausalResult(out), ReasonedEvents(CausalResult(out)))

ReasonAnswered(r) ==
    /\ answers' = Append(answers, Answer("reason", r))
    /\ ReasonExtracted(ValueOf(r))

\* The reason call resolves with an answer of which extractJson makes r.
ReasonReturn(r) ==
    /\ pc = "await_reason"
    /\ ReasonAnswered(r)
    /\ UNCHANGED <<aside, provided, apiKey, store, served, op, body, query, versionResult, verifyError>>

\* The reason call rejects.
ReasonFail(msg) ==
    /\ pc = "await_reason"
    /\ Throw(msg, "upstream")
    /\ UNCHANGED <<aside, provided, apiKey, store, served, op, body, query, calls, stages, consulted,
                   versionResult, causal, verifyError, answers>>

\* The rest of verifyContradiction once extractJson returned out: its steps
\* are narrated, or the inner catch takes the TypeError of a null answer.
VerifyExtracted(out) ==
    IF ThrowsOnAccess(out)
    THEN /\ verifyError' = TypeErrorMessage
         /\ Finish(Append(events, SkippedStep), causal)
    ELSE /\ verifyError' = <<>>
         /\ Finish(events \o VerifiedSteps(VerificationSteps(out)), causal)

VerifyAnswered(r) ==
    /\ answers' = Append(answers, Answer("verify", r))
    /\ VerifyExtracted(ValueOf(r))

\* The verify call resolves with an answer of which extractJson makes r.
VerifyReturn(r) ==
    /\ pc = "await_verify"
    /\ VerifyAnswered(r)
    /\ UNCHANGED <<aside, provided, apiKey, store, served, op, body, query, calls,
                   versionResult, causal, cause>>

\* A variant of VerifyFail without the inner catch: the error reaches the
\* outer one.
VerifyFailFatal(msg) ==
    /\ pc = "await_verify"
    /\ verifyError' = msg
    /\ Throw(msg, "upstream")
    /\ UNCHANGED <<aside, provided, apiKey, store, served, op, body, query, calls, stages, consulted,
                   versionResult, causal, answers>>

\* The verify call rejects: the inner catch takes the error.
VerifyFail(msg) ==
    /\ pc = "await_verify"
    /\ verifyError' = msg
    /\ Finish(Append(events, SkippedStep), causal)
    /\ UNCHANGED <<aside, provided, apiKey, store, served, op, body, query, calls,
                   versionResult, causal, cause, answers>>

\* ----------------------------------------------------------- dataset route

\* GET /api/dataset
DatasetGet ==
    /\ Accept("dataset", EmptyBody)
    /\ query' = <<>>
    /\ calls' = <<>>
    /\ stages' = <<>>
    /\ consulted' = <<Consult("dataset", getDataset(store))>>
    /\ events' = <<>>
    /\ closed' = FALSE
    /\ response' = DatasetResponse(getDataset(store))
    /\ provided' = Append(provided, getDataset(store))
    /\ cause' = ""
    /\ pc' = "done"

\* ----------------------------------------------------- derivative routes

\* POST /api/emit-docs
EmitDocsPost ==
    /\ Accept("emit_docs", EmptyBody)
    /\ UNCHANGED provided
    /\ query' = <<>>
    /\ FirstCall("emit_docs", "emit_docs", <<>>, NoResponse)

\* POST /api/emit-reconciliation-patch
EmitPatchPost(b) ==
    /\ Accept("emit_patch", b)
    /\ UNCHANGED provided
    /\ query' = <<>>
    /\ IF \/ TrimmedString(b.finding_id) = <<>>
          \/ TrimmedString(b.target) = <<>>
          \/ TrimmedString(b.action) = <<>>
       THEN Reject(DetailResponse(400, <<"finding_id, target, action required">>), <<>>)
       ELSE FirstCall("emit_patch", "emit_patch", <<>>, NoResponse)

\* POST /api/reconciliation-bundle
BundlePost ==
    /\ Accept("bundle", EmptyBody)
    /\ UNCHANGED provided
    /\ query' = <<>>
    /\ FirstCall("bundle", "bundle", <<>>, NoResponse)

BundleResponses == Responses(BundleTexts, BundleBodies)
MarkdownResponses == Responses(MarkdownTexts, {})

DerivativeResponses(o) ==
    IF o = "bundle" THEN BundleResponses ELSE MarkdownResponses

\* The three strings of the bundle, or the 500 of the TypeError.
BundleOf(pm, pr, ss) ==
    IF ~pm.ok \/ ~pr.ok \/ ~ss.ok
    THEN DetailResponse(CatchStatus("bundle", TypeErrorMessage), TypeErrorMessage)
    ELSE BundleResponse([post_mortem   |-> OrPlaceholder(pm.val),
                         pr_diff       |-> OrPlaceholder(pr.val),
                         slack_summary |-> OrPlaceholder(ss.val)])

BundleExtracted(out) ==
    IF ThrowsOnAccess(out)
    THEN DetailResponse(CatchStatus("bundle", TypeErrorMessage), TypeErrorMessage)
    ELSE BundleOf(BundleValue(out, "post_mortem", "incident_report"),
                  BundleValue(out, "pr_diff", "remedy_patch"),
                  BundleValue(out, "slack_summary", "stakeholder_summary"))

\* What a derivative route answers once its call resolved with text.
DerivativeResponse(o, text) ==
    IF o # "bundle" THEN MarkdownResponse(Trim(text))
    ELSE BundleExtracted(extractJson(text))

\* The call of a derivative route resolves.
DerivativeReturn(parts) ==
    /\ pc = "await_derivative"
    /\ response' = DerivativeResponse(op, GenerateText(parts))
    /\ cause' = IF response'.status = 200 THEN "" ELSE "typeerror"
    /\ pc' = "done"
    /\ UNCHANGED <<aside, provided, apiKey, store, served, op, body, query, calls, stages, consulted, events,
                   closed, versionResult, causal, verifyError, answers>>

\* The call of a derivative route rejects.
DerivativeFail(msg) ==
    /\ pc = "await_derivative"
    /\ Throw(msg, "upstream")
    /\ UNCHANGED <<aside, provided, apiKey, store, served, op, body, query, calls, stages, consulted,
                   versionResult, causal, verifyError, answers>>

\* The response is delivered and the request's objects are dropped.
Complete ==
    /\ pc = "done"
    /\ pc' = "idle"
    /\ op' = "none"
    /\ body' = EmptyBody
    /\ query' = <<>>
    /\ calls' = <<>>
    /\ stages' = <<>>
    /\ consulted' = <<>>
    /\ events' = <<>>
    /\ closed' = FALSE
    /\ response' = NoResponse
    /\ versionResult' = NoVersion
    /\ causal' = NoCausal
    /\ cause' = ""
    /\ verifyError' = <<>>
    /\ answers' = <<>>
    /\ UNCHANGED <<aside, provided, apiKey, store, served>>

\* ------------------------------------------------------------------ system

Next ==
    \/ \E b \in AskBodies : AskPost(b)
    \/ \E b \in AskBodies : StreamPost(b)
    \/ \E r \in InferOutcomes : InferReturn(r)
    \/ \E msg \in UpstreamMessages : InferFail(msg)
    \/ \E r \in ReasonOutcomes : ReasonReturn(r)
    \/ \E msg \in UpstreamMessages : ReasonFail(msg)
    \/ \E r \in VerifyOutcomes : VerifyReturn(r)
    \/ \E msg \in UpstreamMessages : VerifyFail(msg)
    \/ EmitDocsPost
    \/ \E b \in PatchBodies : EmitPatchPost(b)
    \/ BundlePost
    \/ \E parts \in DerivativeResponses(op) : DerivativeReturn(parts)
    \/ \E msg \in UpstreamMessages : DerivativeFail(msg)
    \/ DatasetGet
    \/ Complete

Spec == Init /\ [][Next]_vars


\* Each awaited remote call eventually settles.  Resolving and rejecting are
\* enabled in exactly the states where the call is pending and either one
\* leaves that state, so weak fairness of the rejecting step alone is the
\* same condition as weak fairness of "resolves or rejects".
LiveSpec ==
    /\ Spec
    /\ WF_vars(\E msg \in UpstreamMessages : InferFail(msg))
    /\ WF_vars(\E msg \in UpstreamMessages : ReasonFail(msg))
    /\ WF_vars(\E msg \in UpstreamMessages : VerifyFail(msg))

\* ----------------------------------------------------------- direct calls

\* The citation strings of a direct call: chat with a date, a channel, a
\* commit with its short hash, a bare hash, a short hash in capitals, two
\* hashes in the reverse of the dataset's order, a hex word that is no hash,
\* tickets with and without a record, a document, the same with whitespace
\* around, and a blank.
Citations ==
    { <<"Slack", " ", "2025-09-12">>, <<"#eng">>, <<"Commit", " ", "8a2f4c9">>,
      <<"deadbeef">>, <<"8A2F4C9">>, <<"deadbeef", " ", "8a2f4c9">>,
      <<"facade">>, <<"AUTH-101">>, <<"SEC-7">>,
      <<"README">>, <<" ", "README", " ">>, <<" ">> }

CitationListsUpTo(n) == UNION {[1..k -> Citations] : k \in 0..n}

\* The datasets of a direct call: all corpora, none, and all but the chat.
ResolverDatasets == Datasets \cup {[FullDataset EXCEPT !.slack = <<>>]}

ResolverArgs == [sources : CitationListsUpTo(MaxCitations), data : ResolverDatasets]

\* A string member whose value holds a brace character.
MemBrace(key, b) ==
    [Mem(key, "string", <<"a ", b, " b">>, 0, <<>>) EXCEPT !.brace = b]

\* The JSON objects embedded in the texts of a direct call: empty, flat, with
\* whitespace inside, nested, and with a brace inside a string value.
ExtractBodies ==
    { Obj(<<>>),
      Obj(<<Mem("root_cause", "string", <<"drift">>, 0, <<>>)>>),
      Obj(<<WS, Mem("confidence", "number", <<>>, 90, <<>>), WS>>),
      Obj(<<Key("finding"), LB, Mem("risk", "string", <<"low">>, 0, <<>>), RB>>),
      Obj(<<MemBrace("root_cause", "}")>>),
      Obj(<<MemBrace("root_cause", "{")>>) }

\* A JSON object wrapped in prose.
InProse(b) ==
    { <<Prose>> \o b \o <<Prose>>, <<Prose, WS>> \o b, b \o <<WS, Prose, Prose>> }
\* A JSON object in a fenced code block: tagged json, bare, and bare with
\* another tag.
InFence(b) ==
    { <<Prose, FenceJson, WS>> \o b \o <<WS, Fence>>,
      <<Fence>> \o b \o <<Fence, Prose>>,
      <<Fence, Prose, WS>> \o b \o <<WS, Fence>> }
\* A JSON object followed by one stray character.
WithStray(b) == { b \o <<RB>>, b \o <<Prose>> }

ExtractArg(text, b, how) == [text |-> text, embedded |-> b, how |-> how]

\* The texts of a direct call, each with the object it embeds and how.
ExtractArgs ==
    UNION { {ExtractArg(t, b, "prose") : t \in InProse(b)}
            \cup {ExtractArg(t, b, "fence") : t \in InFence(b)}
            \cup {ExtractArg(t, b, "stray") : t \in WithStray(b)}
            \cup {ExtractArg(b, b, "plain"), ExtractArg(<<WS>> \o b \o <<WS>>, b, "plain")}
            : b \in ExtractBodies }
    \cup {ExtractArg(t, <<>>, "none") : t \in DegenerateTexts}

\* The values a key of the bundle answer takes: missing, a string with
\* whitespace around, the empty string, null, and a number.
BundleMembers(key) ==
    { <<>>,
      <<Mem(key, "string", <<" ", key, " ">>, 0, <<>>)>>,
      <<Mem(key, "string", <<>>, 0, <<>>)>>,
      <<Mem(key, "null", <<>>, 0, <<>>)>>,
      <<Mem(key, "number", <<>>, 3, <<>>)>> }

\* The parsed objects of a direct call of the bundle extraction.
BundleArgs ==
    { JsonParse(b).val : b \in BundleBodies }
    \cup { JsonParse(Obj(p \o a \o <<Mem("pr_diff", "string", <<"diff">>, 0, <<>>),
                                     Mem("stakeholder_summary", "string", <<"sum">>, 0, <<>>)>>)).val
           : p \in BundleMembers("post_mortem"), a \in BundleMembers("incident_report") }
    \cup { JsonParse(Obj(<<Mem("post_mortem", "string", <<"pm">>, 0, <<>>)>> \o p \o a)).val
           : p \in BundleMembers("pr_diff"), a \in BundleMembers("remedy_patch") }

\* The arguments of a direct call of fn.
ArgsOf(f) ==
    CASE f = "resolve" -> ResolverArgs
      [] f = "extract" -> ExtractArgs
      [] f = "bundle" -> BundleArgs

\* A direct call is about to be made: no request is in progress.
PureInit ==
    /\ fn \in {"resolve", "extract", "bundle"}
    /\ arg \in ArgsOf(fn)
    /\ ret = NotCalled
    /\ ConsumerIdle
    /\ OthersIdle
    /\ apiKey = TRUE
    /\ store = EmptyDataset
    /\ served = 0
    /\ op = "none"
    /\ body = EmptyBody
    /\ query = <<>>
    /\ pc = "idle"
    /\ calls = <<>>
    /\ stages = <<>>
    /\ consulted = <<>>
    /\ provided = <<>>
    /\ events = <<>>
    /\ closed = FALSE
    /\ response = NoResponse
    /\ versionResult = NoVersion
    /\ causal = NoCausal
    /\ cause = ""
    /\ verifyError = <<>>
    /\ answers = <<>>

server == <<apiKey, store, served, op, body, query, pc, calls, stages, consulted,
            provided, events, closed, response, versionResult, causal, cause,
            verifyError, answers>>

\* getSourceDetails(sources, dataset)
ResolveCall ==
    /\ fn = "resolve"
    /\ ret = NotCalled
    /\ ret' = Returned(getSourceDetails(arg.sources, arg.data))
    /\ UNCHANGED <<fn, arg, server, consumer, others>>

\* extractJson(text)
ExtractCall ==
    /\ fn = "extract"
    /\ ret = NotCalled
    /\ ret' = Returned(extractJson(arg.text))
    /\ UNCHANGED <<fn, arg, server, consumer, others>>

\* The return statement of generateReconciliationBundle on the parsed
\* answer: the bundle, or the detail of the TypeError it throws.
BundleCall ==
    /\ fn = "bundle"
    /\ ret = NotCalled
    /\ ret' = Returned(BundleExtracted(arg))
    /\ UNCHANGED <<fn, arg, server, consumer, others>>

PureNext ==
    \/ ResolveCall
    \/ ExtractCall
    \/ BundleCall

PureSpec == PureInit /\ [][PureNext]_vars

\* ------------------------------------------------------- the page's consumer

StatusEvent(msg) == [event |-> "status", message |-> msg]
OtherEvent == [event |-> "ping"]

\* One frame of the stream's text, the text between two blank lines: whether
\* the pattern /^event:\s*(\w+)\ndata:\s*(.+)/s matches it, whether its data
\* parses as JSON, and the event it carries.
Part(e) == [tok |-> "part", matches |-> TRUE, parses |-> TRUE, ev |-> e]
Unmatched == [tok |-> "part", matches |-> FALSE, parses |-> FALSE, ev |-> OtherEvent]
Unparsed(e) == [tok |-> "part", matches |-> TRUE, parses |-> FALSE, ev |-> e]

\* The pieces of the text of a frame, the places where a chunk can end: the
\* event line, a line feed, the data line in two halves; or, of a frame
\* that is no event, its one line.
Piece(kind, frame) == [tok |-> kind, of |-> frame]
LineFeed == Piece("nl", Unmatched)
\* sse(event, data) without its blank line.  The payload is JSON.stringify's
\* output, which holds no line feed.
FrameText(frame) ==
    IF frame.matches
    THEN <<Piece("head", frame), LineFeed, Piece("data", frame), Piece("rest", frame)>>
    ELSE <<Piece("text", frame)>>
\* The blank line that ends a frame: two line feeds.
BlankLine == <<LineFeed, LineFeed>>

\* The parts a stream is made of: steps with and without a message, a status
\* line, a result, errors with and without a detail, an event of another
\* name, a result whose data does not parse, and text that is no event.
StreamParts ==
    { Part(StepEvent(<<"a">>)), Part(StepEvent(<<"b">>)), Part(StepEvent(<<>>)),
      Part(StatusEvent(<<"s">>)),
      Part(ResultEvent(NoResult)),
      Part(ErrorEvent(<<"boom">>)), Part(ErrorEvent(<<>>)),
      Part(OtherEvent), Unparsed(ResultEvent(NoResult)), Unmatched }

Streams == UNION {[1..n -> StreamParts] : n \in 0..MaxEvents}

RECURSIVE Framed(_)
\* The text of a stream: every part followed by its blank line.
Framed(parts) ==
    IF parts = <<>> THEN <<>>
    ELSE FrameText(Head(parts)) \o BlankLine \o Framed(Tail(parts))

\* Where the buffer holds "\n\n": the positions of a line feed that another
\* follows.
Separators(buffer) ==
    {i \in 1..(Len(buffer) - 1) : buffer[i].tok = "nl" /\ buffer[i + 1].tok = "nl"}

\* buffer.split("\n\n") without its last piece: the parts the buffer holds
\* whole, in order.
RECURSIVE WholeParts(_)
WholeParts(buffer) ==
    IF Separators(buffer) = {} THEN <<>>
    ELSE LET cut == Min(Separators(buffer))
         IN <<SubSeq(buffer, 1, cut - 1)>> \o WholeParts(SubSeq(buffer, cut + 2, Len(buffer)))

\* A variant of Remainder that keeps nothing from one chunk to the next.
RemainderDropped(buffer) == <<>>

\* parts.pop() || "": what follows the last blank line.
RECURSIVE Remainder(_)
Remainder(buffer) ==
    IF Separators(buffer) = {} THEN buffer
    ELSE LET cut == Min(Separators(buffer))
         IN Remainder(SubSeq(buffer, cut + 2, Len(buffer)))

\* part.match(...) and JSON.parse on one part: the frame it is read as.  The
\* pattern needs the event line, a line feed and the start of the data line;
\* the data parses when it is whole and is JSON.
FrameOf(part) ==
    IF Len(part) >= 3 /\ part[1].tok = "head" /\ part[2].tok = "nl"
       /\ part[3] = Piece("data", part[1].of)
    THEN IF part = FrameText(part[1].of) THEN part[1].of ELSE Unparsed(part[1].of.ev)
    ELSE Unmatched

\* The fields of a result that the session memory keeps.
SessionFields ==
    {"inferred_version", "root_cause", "risk", "contradictions", "fix_steps",
     "verification"}

\* The object setSessionMemory is called with.
Finding(r) == [f \in SessionFields |-> r[f]]

\* What the body of the for loop does with one part: the page after it and
\* whether onAsk returned.
Handled(pg, returned) == [page |-> pg, returned |-> returned]

HandlePart(part, pg) ==
    IF ~FrameOf(part).matches \/ ~FrameOf(part).parses THEN Handled(pg, FALSE)
    ELSE LET e == FrameOf(part).ev
         IN IF e.event \in {"step", "status"} /\ e.message # <<>>
            THEN Handled([pg EXCEPT !.thinkingSteps = Append(@, e.message)], FALSE)
            ELSE IF e.event = "result"
            THEN Handled([pg EXCEPT !.result = SetTo(e.result),
                                    !.memory = SetTo(Finding(e.result)),
                                    !.loading = FALSE, !.thinkingOpen = FALSE], TRUE)
            ELSE IF e.event = "error" /\ e.detail # <<>>
            THEN Handled([pg EXCEPT !.error = SetTo(e.detail), !.loading = FALSE], TRUE)
            ELSE Handled(pg, FALSE)

\* The for loop over the whole parts of one chunk: it stops where onAsk
\* returns.
RECURSIVE HandleParts(_, _)
HandleParts(parts, pg) ==
    IF parts = <<>> THEN Handled(pg, FALSE)
    ELSE CHOOSE h \in
           { IF first.returned THEN first ELSE HandleParts(Tail(parts), first.page)
             : first \in {HandlePart(Head(parts), pg)} } : TRUE

\* The number of parts of one chunk the loop body ran for.
RECURSIVE RanFor(_, _)
RanFor(parts, pg) ==
    IF parts = <<>> THEN 0
    ELSE CHOOSE k \in
           { IF first.returned THEN 1 ELSE 1 + RanFor(Tail(parts), first.page)
             : first \in {HandlePart(Head(parts), pg)} } : TRUE

\* The (event name, data) pairs the pattern and JSON.parse made of a
\* sequence of parts, in order: the ghost field parsed of the reader collects
\* them.
RECURSIVE EventsOf(_)
EventsOf(parts) ==
    IF parts = <<>> THEN <<>>
    ELSE (IF FrameOf(Head(parts)).matches /\ FrameOf(Head(parts)).parses
          THEN <<FrameOf(Head(parts)).ev>> ELSE <<>>)
         \o EventsOf(Tail(parts))

\* onAsk up to its first read: the page is reset and the response is ok.
ConsumerInit ==
    /\ sent \in Streams
    /\ wire = Framed(sent)
    /\ reader = [pc |-> "reading", buffer |-> <<>>, parsed |-> <<>>]
    /\ page = [BlankPage EXCEPT !.loading = TRUE, !.thinkingOpen = TRUE]
    /\ OthersIdle
    /\ fn = "none"
    /\ arg = <<>>
    /\ ret = NotCalled
    /\ apiKey = TRUE
    /\ store = EmptyDataset
    /\ served = 0
    /\ op = "none"
    /\ body = EmptyBody
    /\ query = <<>>
    /\ pc = "idle"
    /\ calls = <<>>
    /\ stages = <<>>
    /\ consulted = <<>>
    /\ provided = <<>>
    /\ events = <<>>
    /\ closed = FALSE
    /\ response = NoResponse
    /\ versionResult = NoVersion
    /\ causal = NoCausal
    /\ cause = ""
    /\ verifyError = <<>>
    /\ answers = <<>>

\* reader.read() resolves with a chunk, the next n pieces of the text: the
\* chunk joins the buffer, the whole parts are handled in order, and what
\* follows the last blank line stays in the buffer.
ReadChunk(n) ==
    /\ reader.pc = "reading"
    /\ n \in 1..Len(wire)
    /\ wire' = SubSeq(wire, n + 1, Len(wire))
    /\ \E parts \in {WholeParts(reader.buffer \o SubSeq(wire, 1, n))} :
       \E h \in {HandleParts(parts, page)} :
          /\ page' = h.page
          /\ reader' = [pc |-> IF h.returned THEN "returned" ELSE "reading",
                        buffer |-> Remainder(reader.buffer \o SubSeq(wire, 1, n)),
                        parsed |-> reader.parsed \o
                                   EventsOf(SubSeq(parts, 1, RanFor(parts, page)))]
    /\ UNCHANGED <<sent, fn, arg, ret, server, others>>

\* reader.read() resolves with done: the loop ends and loading is cleared.
ReadDone ==
    /\ reader.pc = "reading"
    /\ wire = <<>>
    /\ reader' = [reader EXCEPT !.pc = "ended"]
    /\ page' = [page EXCEPT !.loading = FALSE]
    /\ UNCHANGED <<sent, wire, fn, arg, ret, server, others>>

ConsumerNext ==
    \/ \E n \in 1..(2 * MaxEvents) : ReadChunk(n)
    \/ ReadDone

ConsumerSpec == ConsumerInit /\ [][ConsumerNext]_vars

\* ------------------------------------------------- two runs at once

\* The catch block of a run's route.
RunThrow(run, msg) ==
    IF run.op = "stream"
    THEN [run EXCEPT !.pc = "done", !.events = Append(@, ErrorEvent(msg)),
                     !.closed = TRUE]
    ELSE [run EXCEPT !.pc = "done",
                     !.response = DetailResponse(CatchStatus(run.op, msg), msg)]

\* A handler is entered with body b: the 400 answer to a blank query, the
\* error of a missing credential, or the run suspended at the infer call.
RunStart(o, b, key) ==
    LET q == TrimmedString(b.query)
        run == [IdleRun EXCEPT !.op = o, !.body = b, !.query = q]
        evs == IF o = "stream" THEN StartSteps(b) ELSE <<>>
        resp == IF o = "stream" THEN Response(200, "stream") ELSE NoResponse
    IN IF q = <<>>
       THEN IF o = "stream"
            THEN [run EXCEPT !.pc = "done", !.response = Response(400, "stream"),
                             !.events = <<ErrorEvent(<<"query required">>)>>,
                             !.closed = TRUE]
            ELSE [run EXCEPT !.pc = "done",
                             !.response = DetailResponse(400, <<"query required">>)]
       ELSE IF key
       THEN [run EXCEPT !.pc = "await_infer", !.calls = <<"infer">>,
                        !.events = evs, !.response = resp]
       ELSE RunThrow([run EXCEPT !.events = evs, !.response = resp], MissingKeyMessage)

\* The end of a run that read the files when it resolved its citations.
RunFinish(run, evs, c, files) ==
    IF run.op = "ask"
    THEN [run EXCEPT !.pc = "done", !.causal = c,
                     !.response = ResultResponse(
                         AssembleResult(run.query, run.versionResult, c,
                             getSourceDetails(c.sources,
                                 ResolverData(run.body.dataset_overrides,
                                              getDataset(files)))))]
    ELSE [run EXCEPT !.pc = "done", !.causal = c, !.closed = TRUE,
                     !.events = evs \o FinishEvents(run.query, run.versionResult, c,
                                     ResolverData(run.body.dataset_overrides,
                                                  getDataset(files)))]

\* The continuation of a run whose infer call resolved with out.
RunInferred(run, out) ==
    IF ThrowsOnAccess(out) THEN RunThrow(run, TypeErrorMessage)
    ELSE [run EXCEPT !.versionResult = InferVersionResult(out),
                     !.calls = Append(@, "reason"),
                     !.pc = "await_reason",
                     !.events = IF run.op = "stream"
                                THEN @ \o InferredSteps(InferVersionResult(out)) ELSE @]

\* The continuation of a run whose reason call resolved with out.
RunReasoned(run, out, files) ==
    IF ThrowsOnAccess(out) THEN RunThrow(run, TypeErrorMessage)
    ELSE LET c == CausalResult(out)
             evs == IF run.op = "stream" THEN run.events \o ReasonedSteps(c)
                    ELSE run.events
         IN IF AfterReason(run.op, c) = "verify"
            THEN IF VerifyCallsModel(c.contradictions)
                 THEN [run EXCEPT !.causal = c, !.calls = Append(@, "verify"),
                                  !.events = Append(evs, VerifyingStep),
                                  !.pc = "await_verify"]
                 ELSE RunFinish(run, Append(evs, VerifyingStep) \o VerifiedSteps(<<>>),
                                c, files)
            ELSE RunFinish(run, evs, c, files)

\* The continuation of a run whose verify call resolved with out.
RunVerified(run, out, files) ==
    IF ThrowsOnAccess(out)
    THEN RunFinish(run, Append(run.events, SkippedStep), run.causal, files)
    ELSE RunFinish(run, run.events \o VerifiedSteps(VerificationSteps(out)),
                   run.causal, files)

\* What a pending call of a run settles with: an answer of which extractJson
\* makes r, or a rejection.
Resolved(r) == [ok |-> TRUE, out |-> ValueOf(r), msg |-> <<>>]
Rejected(msg) == [ok |-> FALSE, out |-> EmptyObject, msg |-> msg]

\* The continuation of a suspended run when its pending call settles.
RunSettle(run, s, files) ==
    CASE run.pc = "await_infer" ->
            IF s.ok THEN RunInferred(run, s.out) ELSE RunThrow(run, s.msg)
      [] run.pc = "await_reason" ->
            IF s.ok THEN RunReasoned(run, s.out, files) ELSE RunThrow(run, s.msg)
      [] run.pc = "await_verify" ->
            IF s.ok THEN RunVerified(run, s.out, files)
            ELSE RunFinish(run, Append(run.events, SkippedStep), run.causal, files)
      [] OTHER -> run

\* The bodies of two requests in progress at once: with and without
\* overrides, with a blank query.
PairBodies ==
    { [EmptyBody EXCEPT !.query = JsString(<<" ", "q", " ">>)],
      [EmptyBody EXCEPT !.query = JsString(<<" ", "q", " ">>),
                        !.dataset_overrides = SlackOverrides, !.prior = TRUE],
      [EmptyBody EXCEPT !.query = JsString(<<" ">>)] }

\* The settlements of their calls: for each call two answers that differ, an
\* answer that is null, and a rejection.
PairSettlements(at) ==
    { Rejected(<<"fetch failed">>), Resolved(TryExtract(<<Lit("null")>>)) } \cup
    { Resolved(TryExtract(t)) :
        t \in CASE at = "await_infer" ->
                     { Obj(<<Mem("inferred_version", "string", <<"v2.4">>, 0, <<>>),
                             Mem("confidence", "number", <<>>, 90, <<>>),
                             Mem("evidence", "array", <<>>, 0, Words(2))>>),
                       Obj(<<Mem("inferred_version", "string", <<"v2.5">>, 0, <<>>),
                             Mem("confidence", "number", <<>>, 40, <<>>)>>) }
                [] at = "await_reason" ->
                     { FindingBody(0, ChatCitations), FindingBody(1, <<>>) }
                [] OTHER ->
                     { Obj(<<>>),
                       Obj(<<Mem("verification_steps", "array", <<>>, 0, Words(2))>>) } }

\* The variables of the single request in progress.
request == <<served, op, body, query, pc, calls, stages, consulted, provided,
             events, closed, response, versionResult, causal, cause, verifyError,
             answers>>

\* No single request is in progress and no direct call is made.
RequestIdle ==
    /\ served = 0
    /\ op = "none"
    /\ body = EmptyBody
    /\ query = <<>>
    /\ pc = "idle"
    /\ calls = <<>>
    /\ stages = <<>>
    /\ consulted = <<>>
    /\ provided = <<>>
    /\ events = <<>>
    /\ closed = FALSE
    /\ response = NoResponse
    /\ versionResult = NoVersion
    /\ causal = NoCausal
    /\ cause = ""
    /\ verifyError = <<>>
    /\ answers = <<>>
    /\ fn = "none"
    /\ arg = <<>>
    /\ ret = NotCalled

\* A variant of StartRun that writes the request's overrides into the files.
StartRunPersists(i, o, b) ==
    /\ runs[i].pc = "idle"
    /\ runs' = [runs EXCEPT ![i] = RunStart(o, b, apiKey)]
    /\ store' = ContextData(b.dataset_overrides, store)
    /\ UNCHANGED <<apiKey, request, fn, arg, ret, consumer, session>>

\* A request arrives while the other run is anywhere in its course.  Its
\* handler keeps what it computes in locals of its own and writes no file.
StartRun(i, o, b) ==
    /\ runs[i].pc = "idle"
    /\ runs' = [runs EXCEPT ![i] = RunStart(o, b, apiKey)]
    /\ UNCHANGED <<apiKey, store, request, fn, arg, ret, consumer, session>>

\* The pending call of run i settles and its continuation runs up to the
\* next await or to the end.
SettleRun(i, s) ==
    /\ runs[i].pc \in {"await_infer", "await_reason", "await_verify"}
    /\ runs' = [runs EXCEPT ![i] = [RunSettle(@, s, store) EXCEPT
                                      !.given = Append(runs[i].given, s)]]
    /\ UNCHANGED <<server, fn, arg, ret, consumer, session>>

PairInit ==
    /\ RequestIdle
    /\ ConsumerIdle
    /\ apiKey \in BOOLEAN
    /\ store = FullDataset
    /\ OthersIdle

PairNext ==
    \/ \E i \in 1..2, o \in {"ask", "stream"}, b \in PairBodies : StartRun(i, o, b)
    \/ \E i \in 1..2 : \E s \in PairSettlements(runs[i].pc) : SettleRun(i, s)

PairSpec == PairInit /\ [][PairNext]_vars

\* ------------------------------------------------------ a session on the page

\* The most invocations of onAsk in one session, started or pending behind a
\* FileReader.
MaxAsks == 2

PriorLine(label, value) == [label |-> label, value |-> value]

\* buildPriorContext(memory): one line per field of the memory that is
\* truthy (a list: not empty), in the order of the code; no line at all
\* stands for null, and then no prior_context is sent.
buildPriorContext(memory) ==
    IF ~memory.set THEN <<>>
    ELSE LET m == memory.val
             line(label, f) == IF m[f] # <<>> THEN <<PriorLine(label, m[f])>> ELSE <<>>
         IN line("Inferred version: ", "inferred_version")
            \o line("Root cause: ", "root_cause")
            \o line("Risk: ", "risk")
            \o line("Contradictions: ", "contradictions")
            \o line("Fix steps: ", "fix_steps")
            \o line("Verification: ", "verification")

\* Results of the streams a session receives: two findings that differ in
\* every kept field but one, and a finding all of whose kept fields are empty.
FindingA ==
    [NoResult EXCEPT !.inferred_version = <<"v2.4">>, !.root_cause = <<"drift">>,
                     !.contradictions = << <<"docs say 30">> >>,
                     !.fix_steps = << <<"update docs">> >>,
                     !.verification = <<"check">>, !.confidence = 90]
FindingB ==
    [NoResult EXCEPT !.inferred_version = <<"v2.5">>, !.risk = <<"high">>]
FindingHollow == [NoResult EXCEPT !.inferred_version = <<>>]

\* The event streams an ask of a session is answered with: a result after a
\* step, a bare result, a result without content, an error after a step, a
\* stream that closes after a step, and one that closes at once.
AskStreams ==
    { <<StepEvent(<<"a">>), ResultEvent(FindingA)>>,
      <<ResultEvent(FindingB)>>,
      <<ResultEvent(FindingHollow)>>,
      <<StepEvent(<<"a">>), ErrorEvent(<<"boom">>)>>,
      <<StepEvent(<<"a">>)>>,
      <<>> }

\* An invocation of onAsk that is awaiting fetch or reader.read().
InFlight(i) == i \in 1..Len(asks) /\ asks[i].pc \in {"fetching", "reading"}

\* onAsk(query, image) up to its await of fetch, called from a render whose
\* sessionMemory is memory: the page is reset and the request is sent with
\* the prior context built from that memory.  held is the session memory of
\* the page at this moment.
onAsk(memory, image) ==
    /\ page' = [page EXCEPT !.loading = TRUE, !.error = Unset, !.result = Unset,
                            !.thinkingSteps = <<>>, !.thinkingOpen = TRUE]
    /\ asks' = Append(asks, [pc |-> "fetching", prior |-> buildPriorContext(memory),
                             image |-> image, inbox |-> <<>>, held |-> page.memory])

\* What a session leaves alone.
offstage == <<server, fn, arg, ret, sent, wire, reader, runs>>

\* The file input's onChange: a file is chosen, or the choice is withdrawn.
\* The input is disabled while loading.
ChooseImage(chosen) ==
    /\ ~page.loading
    /\ box.image # chosen
    /\ box' = [box EXCEPT !.image = chosen]
    /\ UNCHANGED <<page, asks, loads, log, offstage>>

\* QueryBox.submit with a question typed: the button is enabled unless the
\* page is loading.  Without an image onAsk is called at once; with one a
\* FileReader is started whose onload will call the onAsk of this render.
Submit ==
    /\ ~page.loading
    /\ Len(asks) + Len(loads) < MaxAsks
    /\ log' = Append(log, [kind |-> "submit"])
    /\ IF box.image
       THEN /\ loads' = Append(loads, [memory |-> page.memory])
            /\ UNCHANGED <<page, asks, box>>
       ELSE /\ onAsk(page.memory, FALSE)
            /\ UNCHANGED <<loads, box>>
    /\ UNCHANGED offstage

\* reader.onload of the k-th pending FileReader: onAsk is called with what
\* its render closed over, and the attached image is dropped.
ImageLoaded(k) ==
    /\ k \in 1..Len(loads)
    /\ onAsk(loads[k].memory, TRUE)
    /\ loads' = SubSeq(loads, 1, k - 1) \o SubSeq(loads, k + 1, Len(loads))
    /\ box' = [box EXCEPT !.image = FALSE]
    /\ UNCHANGED <<log, offstage>>

\* fetch resolves with an ok response whose body will deliver stream.
FetchOk(i, stream) ==
    /\ i \in 1..Len(asks)
    /\ asks[i].pc = "fetching"
    /\ asks' = [asks EXCEPT ![i].pc = "reading", ![i].inbox = stream]
    /\ UNCHANGED <<page, loads, box, log, offstage>>

\* A variant of Failed that leaves the loading flag as it is.
FailedStillLoading(i, at) ==
    /\ i \in 1..Len(asks)
    /\ asks[i].pc = at
    /\ asks' = [asks EXCEPT ![i].pc = "over", ![i].inbox = <<>>]
    /\ page' = [page EXCEPT !.error = SetTo(<<"Request failed">>)]
    /\ UNCHANGED <<loads, box, log, offstage>>

\* The catch block of onAsk: fetch rejected or the response was not ok (at
\* "fetching"), or reader.read() rejected (at "reading").
Failed(i, at) ==
    /\ i \in 1..Len(asks)
    /\ asks[i].pc = at
    /\ asks' = [asks EXCEPT ![i].pc = "over", ![i].inbox = <<>>]
    /\ page' = [page EXCEPT !.error = SetTo(<<"Request failed">>), !.loading = FALSE]
    /\ UNCHANGED <<loads, box, log, offstage>>

FetchFail(i) == Failed(i, "fetching")
ReadFail(i) == Failed(i, "reading")

\* reader.read() resolves with the next event of the stream of ask i, and
\* the loop body handles it.
Deliver(i) ==
    /\ i \in 1..Len(asks)
    /\ asks[i].pc = "reading"
    /\ asks[i].inbox # <<>>
    /\ \E h \in {HandlePart(FrameText(Part(Head(asks[i].inbox))), page)} :
          /\ page' = h.page
          /\ asks' = [asks EXCEPT ![i].pc = IF h.returned THEN "over" ELSE "reading",
                                  ![i].inbox = IF h.returned THEN <<>> ELSE Tail(@)]
    /\ log' = IF Head(asks[i].inbox).event = "result"
              THEN Append(log, [kind |-> "result", result |-> Head(asks[i].inbox).result])
              ELSE log
    /\ UNCHANGED <<loads, box, offstage>>

\* reader.read() resolves with done: the loop of ask i ends and loading is
\* cleared.
StreamEnd(i) ==
    /\ i \in 1..Len(asks)
    /\ asks[i].pc = "reading"
    /\ asks[i].inbox = <<>>
    /\ asks' = [asks EXCEPT ![i].pc = "over"]
    /\ page' = [page EXCEPT !.loading = FALSE]
    /\ UNCHANGED <<loads, box, log, offstage>>

\* "New investigation": the button exists while the session memory is set.
clearSession ==
    /\ page.memory.set
    /\ page' = [page EXCEPT !.memory = Unset, !.result = Unset, !.thinkingSteps = <<>>,
                            !.error = Unset]
    /\ log' = Append(log, [kind |-> "clear"])
    /\ UNCHANGED <<asks, loads, box, offstage>>

PageInit ==
    /\ RequestIdle
    /\ ConsumerIdle
    /\ OthersIdle
    /\ apiKey = TRUE
    /\ store = EmptyDataset

PageNext ==
    \/ \E chosen \in BOOLEAN : ChooseImage(chosen)
    \/ Submit
    \/ \E k \in 1..MaxAsks : ImageLoaded(k)
    \/ \E i \in 1..MaxAsks, stream \in AskStreams : FetchOk(i, stream)
    \/ \E i \in 1..MaxAsks : FetchFail(i)
    \/ \E i \in 1..MaxAsks : ReadFail(i)
    \/ \E i \in 1..MaxAsks : Deliver(i)
    \/ \E i \in 1..MaxAsks : StreamEnd(i)
    \/ clearSession

PageSpec == PageInit /\ [][PageNext]_vars

\* The response of every request eventually arrives or fails, and its stream
\* eventually delivers what it holds and ends.  A failure is enabled exactly
\* while the fetch, or the read, is awaited, so weak fairness of the failing
\* step is the same condition as weak fairness of "settles".
PageLiveSpec ==
    /\ PageSpec
    /\ \A i \in 1..MaxAsks : WF_vars(FetchFail(i)) /\ WF_vars(ReadFail(i))

\* -------------------------------------------------------------- properties

Range(seq) == {seq[i] : i \in 1..Len(seq)}

\* The positions of the terminal events of the stream.
TerminalPositions == {i \in 1..Len(events) : events[i].event \in {"result", "error"}}

EventNames == {events[i].event : i \in 1..Len(events)}

\* The request in progress ended in an error delivered to the caller.
EndedInError ==
    /\ pc = "done"
    /\ IF op = "stream"
       THEN /\ closed
            /\ events # <<>>
            /\ events[Len(events)].event = "error"
            /\ "result" \notin EventNames
       ELSE /\ response.kind = "detail"
            /\ response.status >= 400

\* The request in progress ended in a result delivered to the caller.
EndedInResult ==
    /\ pc = "done"
    /\ IF op = "stream"
       THEN /\ closed
            /\ events # <<>>
            /\ events[Len(events)].event = "result"
            /\ "error" \notin EventNames
       ELSE /\ response.kind = "result"
            /\ response.status = 200

\* C1: a stream carries at most one terminal event (result or error), the
\* terminal event is the last event, the stream is closed exactly when it
\* carries one, and a finished stream carries exactly one.
StreamOneTerminal ==
    op = "stream" =>
       /\ Cardinality(TerminalPositions) <= 1
       /\ \A i \in TerminalPositions : i = Len(events)
       /\ closed <=> TerminalPositions # {}
       /\ pc = "done" => Cardinality(TerminalPositions) = 1

\* C1, its case: a closed stream with steps before its result.
StreamOneTerminalWitness ==
    /\ op = "stream"
    /\ closed
    /\ Len(events) >= 8
    /\ events[Len(events)].event = "result"
    /\ \A i \in 1..(Len(events) - 1) : events[i].event = "step"

\* C2: a streaming run that awaits a remote call leads to a closed stream
\* whose last event is its terminal event.
StreamTerminates ==
    (op = "stream" /\ pc \in {"await_infer", "await_reason", "await_verify"})
       ~> (op = "stream" /\ pc = "done" /\ closed
           /\ TerminalPositions = {Len(events)})

\* C2, its case: a stream closed after all three remote calls.
StreamTerminatesWitness ==
    /\ op = "stream"
    /\ closed
    /\ calls = <<"infer", "reason", "verify">>
    /\ TerminalPositions = {Len(events)}

\* C3: after a failure of the infer or the reason call the request is over,
\* no later stage was entered (the failing stage is the last one, and it is
\* infer or reason), and the caller has an error and no result.
MandatoryFailureFatal ==
    (op \in {"ask", "stream"} /\ cause \in {"nokey", "upstream", "typeerror"}) =>
       /\ EndedInError
       /\ stages \in {<<"infer">>, <<"infer", "reason">>}
       /\ calls \in {<<>>, <<"infer">>, <<"infer", "reason">>}
       /\ Len(calls) <= Len(stages)
       /\ op = "ask" => response.status \in {500, 503}

\* C3, its case: the reason call of a synchronous ask failed.
MandatoryFailureFatalWitness ==
    /\ op = "ask"
    /\ cause = "upstream"
    /\ calls = <<"infer", "reason">>
    /\ response.kind = "detail"
    /\ response.status = 500

\* C4: when the verify call of a run failed, the run is a stream that went on
\* to citation resolution and ended with a result and no error event.
VerifyFailureSwallowed ==
    verifyError # <<>> =>
       /\ op = "stream"
       /\ cause = ""
       /\ stages = <<"infer", "reason", "verify", "resolve">>
       /\ EndedInResult
       /\ \A i \in 1..Len(events) :
             events[i].event = "step" => events[i].message # verifyError

\* C4, its case: the verify call was rejected.
VerifyFailureSwallowedWitness ==
    /\ verifyError = <<"fetch failed">>
    /\ pc = "done"
    /\ events[Len(events)].event = "result"

\* C5: a verify call was issued only by a stream whose finding has
\* contradictions, and a synchronous ask that answered with a result made
\* the calls infer and reason and no other.
VerifyOnlyWhenContradicted ==
    /\ "verify" \in Range(calls) =>
          /\ op = "stream"
          /\ causal.contradictions # <<>>
          /\ calls = <<"infer", "reason", "verify">>
    /\ op = "ask" => "verify" \notin Range(calls) /\ "verify" \notin Range(stages)
    /\ (op = "ask" /\ pc = "done" /\ response.kind = "result") =>
          calls = <<"infer", "reason">>

\* C5, its case: a stream issued the verify call.
VerifyOnlyWhenContradictedWitness ==
    /\ op = "stream"
    /\ pc = "await_verify"
    /\ calls = <<"infer", "reason", "verify">>
    /\ Len(causal.contradictions) >= 2

\* A required field that is missing, not a string, empty or whitespace only.
IsBlank(v) ==
    \/ v.type # "string"
    \/ \A i \in 1..Len(v.val) : v.val[i] = " "

\* The request in progress has a client input error.
ClientInputError ==
    \/ op \in {"ask", "stream"} /\ IsBlank(body.query)
    \/ op = "emit_patch"
       /\ (IsBlank(body.finding_id) \/ IsBlank(body.target) \/ IsBlank(body.action))

\* C6: a request with a client input error is answered 400 at once: no remote
\* call was issued and no stage was entered.
ClientErrorNoCall ==
    ClientInputError =>
       /\ pc = "done"
       /\ response.status = 400
       /\ calls = <<>>
       /\ stages = <<>>
       /\ op = "stream" => events = <<ErrorEvent(<<"query required">>)>> /\ closed

\* C6, its case: a patch request whose target is whitespace only, the other
\* two fields proper.
ClientErrorNoCallWitness ==
    /\ op = "emit_patch"
    /\ body.target = JsString(<<" ">>)
    /\ ~IsBlank(body.finding_id)
    /\ ~IsBlank(body.action)
    /\ response.status = 400

\* C7: ask answers 503 exactly when the credential is missing, and 500 for
\* every other failure past the input check.
AskStatusByCause ==
    (op = "ask" /\ pc = "done" /\ cause \in {"nokey", "upstream", "typeerror"}) =>
       /\ response.status = 503 <=> cause = "nokey"
       /\ cause # "nokey" => response.status = 500

\* C7, its case: a rejected remote call answered with 503.
AskStatusByCauseWitness ==
    /\ op = "ask"
    /\ pc = "done"
    /\ apiKey
    /\ cause = "upstream"
    /\ response.status = 503

\* What the caller can observe of an outcome besides its message text.
Observable ==
    IF op = "stream"
    THEN [status |-> response.status, kind |-> events[Len(events)].event]
    ELSE [status |-> response.status, kind |-> response.kind]

\* The same of a remote call of operation o rejected with msg.
CaughtObservable(o, msg) ==
    IF o = "stream" THEN [status |-> 200, kind |-> "error"]
    ELSE [status |-> CatchStatus(o, msg), kind |-> "detail"]

\* C8: what an operation answers without a credential differs in status or
\* kind from what it answers to every rejected remote call.
MissingCredentialDistinct ==
    (pc = "done" /\ cause = "nokey") =>
       \A msg \in UpstreamMessages : Observable # CaughtObservable(op, msg)

\* C8, its case: emit-docs without a credential answers 500 with a detail.
MissingCredentialDistinctWitness ==
    /\ op = "emit_docs"
    /\ pc = "done"
    /\ cause = "nokey"
    /\ response.status = 500
    /\ response.kind = "detail"

\* The fourteen fields of a result.
ResultFields ==
    {"query", "inferred_version", "confidence", "evidence", "ambiguity_note",
     "root_cause", "contradictions", "risk", "fix_steps", "verification",
     "sources", "source_details", "reasoning_trace", "truth_gaps"}

\* C9: an ask whose infer and reason calls both returned, whatever their
\* text, answers with a result of the fourteen fields.
DegradedOutputNeverError ==
    (op = "ask" /\ pc = "done" /\ cause \notin {"client", "nokey", "upstream"}) =>
       /\ response.kind = "result"
       /\ DOMAIN response.result = ResultFields

\* C9, its case: the infer call returned a text that parses, and ask
\* answered 500.
DegradedOutputNeverErrorWitness ==
    /\ op = "ask"
    /\ pc = "done"
    /\ cause = "typeerror"
    /\ Len(answers) = 1
    /\ answers[1].call = "infer"
    /\ answers[1].parsed
    /\ response.status = 500

\* The answer to call name held no JSON value extractJson could parse.
Unparseable(name) ==
    \E i \in 1..Len(answers) : answers[i].call = name /\ ~answers[i].parsed

\* C10 as the specification states it: a request whose infer or reason
\* answer was unparseable ends in an error.
UnparseableIsFatal ==
    (op \in {"ask", "stream"} /\ pc = "done"
        /\ (Unparseable("infer") \/ Unparseable("reason"))) => EndedInError

\* C10: an unparseable answer is no error: the stage returns its defaults
\* and the run goes on.  After an unparseable infer answer the version is
\* "unknown" with confidence 0, no evidence and no note, and the reason stage
\* was entered; after an unparseable reason answer the finding is empty and
\* the request ended in a result.  The TypeError of a property read is raised
\* only after an answer that parsed.
UnparseableYieldsDefaults ==
    /\ Unparseable("infer") =>
          /\ versionResult = [inferred_version |-> <<"unknown">>, confidence |-> 0,
                              evidence |-> <<>>, ambiguity_note |-> <<>>]
          /\ Len(stages) >= 2
          /\ stages[2] = "reason"
    /\ Unparseable("reason") =>
          /\ causal = [root_cause |-> <<>>, contradictions |-> <<>>, risk |-> <<>>,
                       fix_steps |-> <<>>, verification |-> <<>>, sources |-> <<>>,
                       reasoning_trace |-> <<>>, truth_gaps |-> <<>>]
          /\ stages = <<"infer", "reason", "resolve">>
          /\ EndedInResult
    /\ (op \in {"ask", "stream"} /\ cause = "typeerror") =>
          answers # <<>> /\ answers[Len(answers)].parsed

\* C10, its case: ask answered with a result although neither answer could
\* be parsed.
UnparseableYieldsDefaultsWitness ==
    /\ op = "ask"
    /\ Len(answers) = 2
    /\ answers[1].call = "infer" /\ ~answers[1].parsed
    /\ answers[2].call = "reason" /\ ~answers[2].parsed
    /\ response.kind = "result"
    /\ response.result.inferred_version = <<"unknown">>


\* The result the caller of the request in progress received.
ResultPayload ==
    IF op = "stream" THEN events[Len(events)].result ELSE response.result

\* C11: the result of either entry point is, field by field, the same
\* function of the query, of what the infer and reason calls returned and of
\* the stored dataset; it depends neither on the entry point nor on whether
\* verification was skipped, succeeded or failed.
SyncStreamSameResult ==
    (op \in {"ask", "stream"} /\ EndedInResult) =>
       /\ DOMAIN ResultPayload = ResultFields
       /\ ResultPayload.query = query
       /\ ResultPayload.inferred_version = versionResult.inferred_version
       /\ ResultPayload.confidence = versionResult.confidence
       /\ ResultPayload.evidence = versionResult.evidence
       /\ ResultPayload.ambiguity_note = versionResult.ambiguity_note
       /\ ResultPayload.root_cause = causal.root_cause
       /\ ResultPayload.contradictions = causal.contradictions
       /\ ResultPayload.risk = causal.risk
       /\ ResultPayload.fix_steps = causal.fix_steps
       /\ ResultPayload.verification = causal.verification
       /\ ResultPayload.sources = causal.sources
       /\ ResultPayload.source_details = getSourceDetails(causal.sources, store)
       /\ ResultPayload.reasoning_trace = causal.reasoning_trace
       /\ ResultPayload.truth_gaps = causal.truth_gaps

\* C11, its case: a stream whose verification failed ends with a result that
\* holds more evidence than the stream narrated.
SyncStreamSameResultWitness ==
    /\ op = "stream"
    /\ EndedInResult
    /\ verifyError # <<>>
    /\ Len(ResultPayload.evidence) > EvidenceShown
    /\ ResultPayload.contradictions # <<>>


\* The positions where a citation that is not blank occurs for the first
\* time, compared after trimming.
FirstOccurrences(src) ==
    {i \in 1..Len(src) :
        /\ TrimWords(src[i]) # <<>>
        /\ \A j \in 1..(i - 1) : TrimWords(src[j]) # TrimWords(src[i])}

\* C12: getSourceDetails returns no more details than it was given citations
\* and than there are distinct citation strings, no two details have the
\* same label, and the details are those of the first occurrences, in the
\* order of the input.
ResolverDedupOrdered ==
    (fn = "resolve" /\ ret.called) =>
       LET src == arg.sources
           out == ret.val
           F   == FirstOccurrences(src)
       IN /\ Len(out) <= Len(src)
          /\ Len(out) <= Cardinality(Range(src))
          /\ \A i, j \in 1..Len(out) : i # j => out[i].label # out[j].label
          /\ Len(out) = Cardinality(F)
          /\ \A i \in F :
                out[Cardinality({j \in F : j <= i})].label = TrimWords(src[i])

\* C12, its case: three citations, the third repeating the first, give two
\* details in the order of the input.
ResolverDedupOrderedWitness ==
    /\ fn = "resolve"
    /\ ret.called
    /\ Len(arg.sources) = 3
    /\ arg.sources[1] = arg.sources[3]
    /\ arg.sources[1] # arg.sources[2]
    /\ Len(ret.val) = 2
    /\ ret.val[1].label = arg.sources[1]
    /\ ret.val[2].label = arg.sources[2]

\* A citation with a run of at least four hex digits.
HasHexToken(s) == \E i \in 1..Len(s) : s[i] \in HexWords

\* C13: a detail whose citation holds a hex token has the commit type, and
\* empty content when the dataset holds no commit the citation names.
HexIsCommit ==
    (fn = "resolve" /\ ret.called) =>
       \A k \in 1..Len(ret.val) :
          HasHexToken(ret.val[k].label) =>
             /\ ret.val[k].type = "git"
             /\ (\A i \in 1..Len(arg.data.git) :
                    ~CommitHit(ret.val[k].label, arg.data.git[i]))
                => ret.val[k].content = <<>>

\* C13, its case: a bare hash resolved against a dataset without commits
\* comes back as a document whose content is the citation.
HexIsCommitWitness ==
    /\ fn = "resolve"
    /\ ret.called
    /\ arg.sources = << <<"deadbeef">> >>
    /\ arg.data.git = <<>>
    /\ ret.val = <<SourceDetail("document", <<"deadbeef">>, <<"deadbeef">>)>>

\* The kind the citation string alone selects: the first pattern it matches.
KindOf(s) ==
    IF MatchesSlack(s) THEN "slack"
    ELSE IF MatchesCommit(s) THEN "git"
    ELSE IF MatchesJira(s) THEN "jira"
    ELSE "document"

\* C14: every detail has the kind its citation string selects, and a chat
\* detail resolved against an empty chat corpus has empty content.
KindByPattern ==
    (fn = "resolve" /\ ret.called) =>
       \A k \in 1..Len(ret.val) :
          /\ ret.val[k].type = KindOf(ret.val[k].label)
          /\ (KindOf(ret.val[k].label) = "slack" /\ arg.data.slack = <<>>)
             => ret.val[k].content = <<>>

\* C14, its case: a channel citation resolved against an empty chat corpus
\* comes back as a document.
KindByPatternWitness ==
    /\ fn = "resolve"
    /\ ret.called
    /\ arg.sources = << <<"#eng">> >>
    /\ arg.data.slack = <<>>
    /\ arg.data.docs # <<>>
    /\ ret.val[1].type = "document"


\* C15: from a text that wraps a JSON object in prose or in a fenced code
\* block, or that follows it with one stray character, extractJson returns
\* that object.
ExtractRecoversEmbedded ==
    (fn = "extract" /\ ret.called /\ arg.how \in {"prose", "fence", "stray"}) =>
       /\ JsonParse(arg.embedded).ok
       /\ ret.val = JsonParse(arg.embedded).val

\* C15, its case: an object with a closing brace inside a string value,
\* wrapped in prose, comes back as the empty object.
ExtractRecoversEmbeddedWitness ==
    /\ fn = "extract"
    /\ ret.called
    /\ arg.how = "prose"
    /\ arg.embedded = Obj(<<MemBrace("root_cause", "}")>>)
    /\ ret.val = EmptyObject

\* C16: what extractJson returns is a JSON object: the value the first
\* successful attempt parsed, or the empty object when none succeeded.
ExtractReturnsMapping ==
    (fn = "extract" /\ ret.called) =>
       /\ ret.val.type = "object"
       /\ ~TryExtract(arg.text).ok => ret.val = EmptyObject

\* C16, its case: on the text null extractJson returns null.
ExtractReturnsMappingWitness ==
    /\ fn = "extract"
    /\ ret.called
    /\ arg.text = <<Lit("null")>>
    /\ ret.val.type = "null"

\* The string of the bundle the claim describes: the value under the primary
\* key when that is a string, else the one under the alternate key, trimmed,
\* and the placeholder when that is missing, null or empty.
BundleString(out, primary, alternate) ==
    LET p == Field(out, primary)
        a == Field(out, alternate)
        v == IF p.type = "string" THEN p.str
             ELSE IF a.type = "string" THEN a.str ELSE <<>>
    IN IF TrimWords(v) = <<>> THEN <<"(No content generated.)">> ELSE TrimWords(v)

\* C17: for every JSON object answered, the bundle extraction returns three
\* non-empty strings, each as the claim describes it, and does not fail.
BundleThreeStrings ==
    (fn = "bundle" /\ ret.called) =>
       /\ ret.val.kind = "bundle"
       /\ DOMAIN ret.val.bundle = {"post_mortem", "pr_diff", "slack_summary"}
       /\ ret.val.bundle.post_mortem = BundleString(arg, "post_mortem", "incident_report")
       /\ ret.val.bundle.pr_diff = BundleString(arg, "pr_diff", "remedy_patch")
       /\ ret.val.bundle.slack_summary =
             BundleString(arg, "slack_summary", "stakeholder_summary")
       /\ \A k \in DOMAIN ret.val.bundle : ret.val.bundle[k] # <<>>

\* C17, its case: an object whose remedy_patch is a number and that has no
\* pr_diff makes the extraction throw.
BundleThreeStringsWitness ==
    /\ fn = "bundle"
    /\ ret.called
    /\ arg.type = "object"
    /\ Field(arg, "pr_diff").type = "undefined"
    /\ Field(arg, "remedy_patch").type = "number"
    /\ ret.val.kind = "detail"
    /\ ret.val.status = 500

OneSnapshotPerRun ==
    op \in {"ask", "stream"} =>
       \A i \in 1..Len(consulted) :
          consulted[i].data = ContextData(body.dataset_overrides, getDataset(store))

\* C19, its case: a run whose overrides replace the chat corpus ended in a
\* result; its contexts were built from the overlaid data, its citations
\* were resolved from the stored data, and the detail of the chat citation
\* quotes a stored message the contexts never held.
OneSnapshotPerRunWitness ==
    /\ op \in {"ask", "stream"}
    /\ pc = "done"
    /\ cause = ""
    /\ body.dataset_overrides.given
    /\ store = FullDataset
    /\ consulted[1].stage = "infer"
    /\ consulted[1].data.slack = SlackOverrides.entries.slack.val
    /\ consulted[Len(consulted)].stage = "resolve"
    /\ consulted[Len(consulted)].data = store
    /\ consulted[Len(consulted)].data # consulted[1].data
    /\ ResultPayload.source_details # <<>>
    /\ ResultPayload.source_details[1].content = SlackContent(store.slack[2])

\* The text reader.read() has delivered so far.
Delivered == SubSeq(Framed(sent), 1, Len(Framed(sent)) - Len(wire))

IsEvent(part) == FrameOf(part).matches /\ FrameOf(part).parses

\* The events received so far, in arrival order.
Received == SelectSeq(WholeParts(Delivered), IsEvent)

\* The positions of the result and error events among them.
ReceivedTerminals ==
    {i \in 1..Len(Received) : FrameOf(Received[i]).ev.event \in {"result", "error"}}

RECURSIVE StepMessages(_)
\* The messages of the step events of a sequence of events, in order.
StepMessages(parts) ==
    IF parts = <<>> THEN <<>>
    ELSE (IF FrameOf(Head(parts)).ev.event = "step"
          THEN <<FrameOf(Head(parts)).ev.message>> ELSE <<>>)
         \o StepMessages(Tail(parts))

RECURSIVE HandledInOrder(_, _)
\* The page after the loop body ran for every event of a sequence, in order.
HandledInOrder(parts, pg) ==
    IF parts = <<>> THEN pg
    ELSE HandledInOrder(Tail(parts), HandlePart(Head(parts), pg).page)

\* C20: the thinking steps are the messages of the step events received
\* before the first result or error event, in order, and once a result or
\* error event was received the page is what handling the events up to and
\* including it left, whatever arrived after it (the loading flag apart,
\* which the end of the stream clears).
ConsumerClosesAtTerminal ==
    reader.pc # "idle" =>
       /\ page.thinkingSteps =
             StepMessages(SubSeq(Received, 1,
                                 IF ReceivedTerminals = {} THEN Len(Received)
                                 ELSE Min(ReceivedTerminals) - 1))
       /\ ReceivedTerminals # {} =>
             [page EXCEPT !.loading = FALSE] =
             [HandledInOrder(SubSeq(Received, 1, Min(ReceivedTerminals)),
                             [BlankPage EXCEPT !.loading = TRUE, !.thinkingOpen = TRUE])
                EXCEPT !.loading = FALSE]

\* C20, its case: an error event without a detail arrived first; the step
\* and the result that arrived after it were handled, and the page shows a
\* result and no error.
ConsumerClosesAtTerminalWitness ==
    /\ sent = <<Part(ErrorEvent(<<>>)), Part(StepEvent(<<"a">>)),
                Part(ResultEvent(NoResult))>>
    /\ reader.pc = "returned"
    /\ page.thinkingSteps = << <<"a">> >>
    /\ page.result = SetTo(NoResult)
    /\ page.error = Unset

\* ------------------------------------------------------------------ C23

\* C23: the confidence carried in every result, counted in hundredths, lies
\* between 0 and 100, that is within [0,1].
ConfidenceWithinUnit ==
    (op \in {"ask", "stream"} /\ EndedInResult) =>
       ResultPayload.confidence \in 0..100

\* C23, its case: the infer call returned an object whose confidence is the
\* number 1.5, the run ended in a result, and the result carries 1.5.
ConfidenceWithinUnitWitness ==
    /\ op \in {"ask", "stream"}
    /\ EndedInResult
    /\ versionResult.inferred_version = <<"v2.5">>
    /\ ResultPayload.confidence = 150

\* ------------------------------------------------------------------ C24

\* The position of the step that announces the verification stage.
VerifyingAt == Max({i \in 1..Len(events) : events[i] = VerifyingStep})

\* The verify call of the run in progress ended in an exception.
VerifyThrew == verifyError # <<>>

\* The verify call of the run in progress returned output whose
\* verification_steps member is not a list.
VerifyMalformed ==
    /\ verifyError = <<>>
    /\ answers # <<>>
    /\ answers[Len(answers)].call = "verify"
    /\ answers[Len(answers)].steps # "array"

\* C24: in a stream whose verify call threw or returned output without a
\* valid verification_steps list, the event that follows the announcement of
\* the verification stage is the citation-resolution step: nothing was
\* emitted between the end of the call and that step.
VerifySkippedSilently ==
    (op = "stream" /\ pc = "done" /\ (VerifyThrew \/ VerifyMalformed)) =>
       events[VerifyingAt + 1] = StepEvent(<<"Resolving source citations">>)

\* C24, its case: the verify call of a stream was rejected, and the stream
\* narrated the skipped verification before it resolved the citations.
VerifySkippedSilentlyWitness ==
    /\ op = "stream"
    /\ pc = "done"
    /\ verifyError = <<"fetch failed">>
    /\ events[VerifyingAt + 1] = SkippedStep
    /\ events[VerifyingAt + 2] = StepEvent(<<"Resolving source citations">>)
    /\ events[Len(events)].event = "result"

\* The same for malformed output alone: it is narrated as a completed
\* verification.
VerifyMalformedSilent ==
    (op = "stream" /\ pc = "done" /\ VerifyMalformed) =>
       events[VerifyingAt + 1] # StepEvent(<<"Verification complete">>)

\* ------------------------------------------------------------------ C25

IsPrefix(s, t) == Len(s) <= Len(t) /\ SubSeq(t, 1, Len(s)) = s

\* The events a stream has emitted when it issues the infer call.
BeforeInfer ==
    <<StepEvent(<<"Loading dataset">> \o
                (IF body.include_sources # <<>> THEN body.include_sources
                 ELSE <<"Slack, Git, Jira, docs, releases">>))>>
    \o (IF body.image THEN <<StepEvent(<<"Including attached image">>)>> ELSE <<>>)
    \o (IF body.prior THEN <<StepEvent(<<"Building on prior session knowledge">>)>> ELSE <<>>)
    \o <<StepEvent(<<"Inferring version">>)>>

\* The events between the infer call's return and the reason call: the
\* inferred version and at most 3 evidence lines.
BetweenInferAndReason ==
    <<StepEvent(<<"Inferred version: ">> \o versionResult.inferred_version
                \o <<ToString(versionResult.confidence), "% confidence">>)>>
    \o StepsOf("  Evidence: ",
               SubSeq(versionResult.evidence, 1,
                      IF Len(versionResult.evidence) > 3 THEN 3
                      ELSE Len(versionResult.evidence)))
    \o <<StepEvent(<<"Loading sources into context">>),
         StepEvent(<<"Reasoning over Slack intent vs Git vs docs">>)>>

\* The events after the reason call's return: the reasoning trace.
AfterReasonReturn ==
    <<StepEvent(<<"Causal analysis complete">>)>> \o StepsOf("  ", causal.reasoning_trace)

\* The events a successful stream has emitted before the verification stage.
BeforeVerification == BeforeInfer \o BetweenInferAndReason \o AfterReasonReturn

\* The events of the verification stage of a finished stream: those between
\* the reasoning trace and the citation-resolution steps.
VerificationEvents ==
    SubSeq(events, Len(BeforeVerification) + 1, Len(events) - 3)

\* Where a stream stands at each of its suspension points and at its end.
StageOrderAt ==
    op = "stream" =>
       /\ pc = "await_infer" =>
             /\ calls = <<"infer">>
             /\ events = BeforeInfer
       /\ pc = "await_reason" =>
             /\ calls = <<"infer", "reason">>
             /\ events = BeforeInfer \o BetweenInferAndReason
       /\ pc = "await_verify" =>
             /\ calls = <<"infer", "reason", "verify">>
             /\ events = BeforeVerification \o <<StepEvent(<<"Verifying inferred truth">>)>>
       /\ (pc = "done" /\ EndedInResult) =>
             /\ IsPrefix(BeforeVerification, events)
             /\ Len(events) >= Len(BeforeVerification) + 3
             /\ events[Len(events) - 2] = StepEvent(<<"Resolving source citations">>)
             /\ events[Len(events) - 1] = StepEvent(<<"Sources resolved">>)
             /\ events[Len(events)].event = "result"
             /\ \A i \in 1..(Len(events) - 1) : events[i].event = "step"
             /\ IF "verify" \in Range(calls)
                THEN /\ calls = <<"infer", "reason", "verify">>
                     /\ VerificationEvents # <<>>
                     /\ Head(VerificationEvents) = StepEvent(<<"Verifying inferred truth">>)
                ELSE /\ calls = <<"infer", "reason">>
                     /\ VerificationEvents = <<>>

\* How a stream moves: what it emitted stays and is only added to, a call
\* is issued only when none is pending, and a pending call is the last one
\* issued.
StageOrderStep ==
    (op = "stream" /\ op' = "stream" /\ pc # "idle" /\ pc' # "idle") =>
       /\ IsPrefix(events, events')
       /\ IsPrefix(calls, calls')
       /\ Len(calls') <= Len(calls) + 1
       /\ closed => UNCHANGED <<events, calls>>

\* C25: in a streaming run the calls and the step events follow the stage
\* order with one call in flight at a time: the dataset-loading and
\* inferring steps precede the infer call; the inferred version and at most
\* 3 evidence steps follow its return and precede the reason call; the
\* reasoning trace follows the reason call's return; the verification
\* steps, when the stage runs, come next; the citation-resolution steps come
\* after them; and the result event is last.
StageOrder == []StageOrderAt /\ [][StageOrderStep]_vars

\* C25, its case: a stream whose infer answer held four evidence lines and
\* whose reason answer held contradictions went through all three calls and
\* ended in a result.
StageOrderWitness ==
    /\ op = "stream"
    /\ pc = "done"
    /\ EndedInResult
    /\ calls = <<"infer", "reason", "verify">>
    /\ Len(versionResult.evidence) = MaxList
    /\ causal.reasoning_trace # <<>>
    /\ Len(VerificationEvents) >= 3

\* ------------------------------------------------------------------ C26

\* Whether the lower-cased citation s contains the lower-cased word w.
CitationContains(s, w) == \E i \in 1..Len(s) : WordContains(Lower(s[i]), Lower(w))

\* The commit records a citation names, by full hash or by short hash.
NamedCommits(s, data) ==
    {i \in 1..Len(data.git) :
        CitationContains(s, data.git[i].hash) \/ CitationContains(s, data.git[i].short_hash)}

\* The content of a commit detail: the header line, the message and the
\* change on the following lines, and the diff block of a record with a diff.
CommitText(it) ==
    <<"commit ", it.hash, " (", it.date, ") - ", it.author,
      "\n  ", it.message, "\n  ", it.change>>
    \o (IF it.diff = "" THEN <<>> ELSE <<"\n  Diff:\n  ", it.diff>>)

\* C26: the detail of a commit-classified citation is the commit detail of
\* the first record, in dataset order, whose full hash or short hash the
\* citation contains, both lower-cased; when there is no such record the
\* detail is not a commit detail and quotes no commit.
CommitResolvesFirstNamed ==
    (fn = "resolve" /\ ret.called) =>
       \A k \in 1..Len(ret.val) :
          LET s == ret.val[k].label
              J == NamedCommits(s, arg.data)
          IN KindOf(s) = "git" =>
                IF J # {}
                THEN ret.val[k] = SourceDetail("git", s, CommitText(arg.data.git[Min(J)]))
                ELSE /\ ret.val[k].type # "git"
                     /\ \A i \in 1..Len(arg.data.git) :
                           ret.val[k].content # CommitText(arg.data.git[i])

\* C26, its case: the citations "Commit 8a2f4c9", a bare full hash and a hex
\* word that names no commit were resolved against the full dataset: the
\* first is the detail of the record whose short hash is 8a2f4c9, with its
\* diff block, the second that of the record without a diff, the third a
\* document.
CommitResolvesFirstNamedWitness ==
    /\ fn = "resolve"
    /\ ret.called
    /\ arg.data = FullDataset
    /\ arg.sources = << <<"Commit", " ", "8a2f4c9">>, <<"deadbeef">>, <<"facade">> >>
    /\ NamedCommits(<<"deadbeef", " ", "8a2f4c9">>, arg.data) = {1, 2}
    /\ ret.val[1].type = "git"
    /\ ret.val[1].content =
          <<"commit ", "8a2f4c9d", " (", "2025-09-11", ") - ", "ana",
            "\n  ", "timeout 90", "\n  ", "config", "\n  Diff:\n  ", "+90">>
    /\ ret.val[2].content =
          <<"commit ", "deadbeef", " (", "2025-09-13", ") - ", "bo",
            "\n  ", "cleanup", "\n  ", "none">>
    /\ ret.val[3].type = "document"

\* ------------------------------------------------------------------ C22

RECURSIVE AloneAfter(_, _, _)
\* The run of request (o, b) that nothing else is in progress beside, after
\* the first k of the settlements given, against the files as stored.
AloneAfter(run, given, k) ==
    IF k = 0 THEN RunStart(run.op, run.body, apiKey)
    ELSE [RunSettle(AloneAfter(run, given, k - 1), given[k], FullDataset)
            EXCEPT !.given = SubSeq(given, 1, k)]

\* C22: whatever the other run did and wherever the two were interleaved,
\* each run is where it would be alone with the same request and the same
\* settlements of its calls: the same events, the same response, the same
\* position.
RunsAsAlone ==
    \A i \in 1..2 :
       runs[i].pc # "idle" =>
          runs[i] = AloneAfter(runs[i], runs[i].given, Len(runs[i].given))

\* C22, its case: a stream with overrides went through its three calls and
\* an ask through its two, in any interleaving; both ended in a result, the
\* ask's with a version of its own and a chat detail that quotes the stored
\* message.
RunsAsAloneWitness ==
    /\ runs[1].op = "stream"
    /\ runs[1].body.dataset_overrides.given
    /\ runs[1].pc = "done"
    /\ Len(runs[1].given) = 3
    /\ runs[1].events[Len(runs[1].events)].event = "result"
    /\ runs[2].op = "ask"
    /\ runs[2].pc = "done"
    /\ Len(runs[2].given) = 2
    /\ runs[2].response.kind = "result"
    /\ runs[2].response.result.source_details # <<>>
    /\ runs[2].response.result.source_details[1].content = SlackContent(FullDataset.slack[2])
    /\ runs[2].response.result.inferred_version # runs[1].versionResult.inferred_version

\* ------------------------------------------------------------------ C28

\* A stream as the ask-stream route emits it with status 200: step events
\* with a message, then one result or error event, which is the last.
ServerStream(parts) ==
    /\ parts # <<>>
    /\ \A i \in 1..(Len(parts) - 1) :
          \E m \in {<<"a">>, <<"b">>} : parts[i] = Part(StepEvent(m))
    /\ \/ parts[Len(parts)] = Part(ResultEvent(NoResult))
       \/ \E d \in {<<"boom">>, <<>>} : parts[Len(parts)] = Part(ErrorEvent(d))

\* The (event name, data) pairs of the frames of a stream.
EmittedEvents(parts) == [i \in 1..Len(parts) |-> parts[i].ev]

MidFrame ==
    /\ ServerStream(sent)
    /\ reader.buffer # <<>>
    /\ reader.buffer[Len(reader.buffer)].tok = "data"

\* The reader holds a frame and one line feed: the last chunk ended between
\* the two line feeds of the blank line.
MidBlankLine ==
    /\ ServerStream(sent)
    /\ Len(reader.buffer) = 5
    /\ reader.buffer[5].tok = "nl"

\* ------------------------------------------------------------------ C21

RECURSIVE LastFinding(_)
\* What the history of the page leaves as the last finding: the six fields
\* of the most recent result event received, nothing when the session was
\* cleared after it or no result was ever received.
LastFinding(history) ==
    IF history = <<>> THEN Unset
    ELSE LET last == history[Len(history)]
         IN IF last.kind = "result" THEN SetTo(Finding(last.result))
            ELSE IF last.kind = "clear" THEN Unset
            ELSE LastFinding(SubSeq(history, 1, Len(history) - 1))

\* The session memory is the snapshot of the last finding.
MemoryIsLastFinding == page.memory = LastFinding(log)

\* Every ask was sent with the prior context built from the session memory
\* the page held when the ask started.
PriorFromMemory ==
    \A i \in 1..Len(asks) : asks[i].prior = buildPriorContext(asks[i].held)

\* C21: the session memory holds the six fields of the most recent result
\* event received, an ask that ends in an error or without a result leaves
\* it as it was, and every ask is sent with the prior context built from the
\* session memory as it is when the ask starts.
SessionMemorySnapshot == MemoryIsLastFinding /\ PriorFromMemory

\* The same for the asks submitted without an image, which start within the
\* submit.
PriorFromMemoryAtOnce ==
    \A i \in 1..Len(asks) : ~asks[i].image => asks[i].prior = buildPriorContext(asks[i].held)

\* C21, its case: a finding was received, a question with an image was
\* submitted, the session was cleared while the image was being read, and
\* the ask then started carries the cleared finding as its prior context
\* although the session memory is empty.
SessionMemorySnapshotWitness ==
    /\ Len(asks) = 2
    /\ asks[2].pc = "fetching"
    /\ asks[2].image
    /\ ~asks[2].held.set
    /\ ~page.memory.set
    /\ log[Len(log)].kind = "clear"
    /\ asks[2].prior = buildPriorContext(SetTo(Finding(FindingA)))
    /\ asks[2].prior # <<>>

\* The session was cleared and no question has been submitted since.
ClearedSince ==
    \E k \in 1..Len(log) :
        /\ log[k].kind = "clear"
        /\ \A j \in (k + 1)..Len(log) : log[j].kind # "submit"

\* C27: after clearSession the session memory and the result stay null until
\* a new question is submitted; a result event of an ask that was in flight
\* when the session was cleared does not set them again.
ClearedStaysCleared == ClearedSince => ~page.memory.set /\ ~page.result.set

\* C27, its case: the session was cleared while an ask was in flight, no
\* question was submitted afterwards, and the result event of that ask has
\* been received and handled.
ClearedStaysClearedWitness ==
    /\ ClearedSince
    /\ Len(log) >= 2
    /\ log[Len(log)].kind = "result"
    /\ log[Len(log) - 1].kind = "clear"
    /\ \A i \in 1..Len(asks) : asks[i].pc = "over"
    /\ loads = <<>>
    /\ page.memory = SetTo(Finding(log[Len(log)].result))
    /\ page.result.set

\* The invocations of onAsk that are awaiting their response or reading it.
AsksInFlight == {i \in 1..Len(asks) : InFlight(i)}

\* C30: at most one ask stream is in flight at a time; a submit while a
\* request is loading, or while the image of a submitted question is being
\* read, starts no second onAsk.
OneAskInFlight == Cardinality(AsksInFlight) <= 1

\* C30, its case: two questions were submitted, the second while the image
\* of the first was still being read, and both requests are in flight.
OneAskInFlightWitness ==
    /\ Len(asks) = 2
    /\ InFlight(1)
    /\ InFlight(2)
    /\ \E i \in 1..2 : asks[i].image
    /\ Len(log) = 2
    /\ \A k \in 1..2 : log[k].kind = "submit"

\* While the page is loading no submit is accepted: every step that adds a
\* submitted question starts from a page that is not loading.
SubmitOnlyWhenIdle ==
    [][Len(log') > Len(log) /\ log'[Len(log')].kind = "submit" => ~page.loading]_vars

\* The invocation i of onAsk has returned.
Over(i) == i \in 1..Len(asks) /\ asks[i].pc = "over"

\* The step in which an invocation of onAsk returns leaves the page not
\* loading.
ReturnClearsLoading ==
    \A i \in 1..MaxAsks : InFlight(i) /\ Over(i)' => ~page'.loading

\* C29: every invocation of onAsk eventually returns, and returns the page
\* to loading = false, whether its stream delivered a result, delivered an
\* error, closed without a terminal event, or the request failed, provided
\* the response eventually arrives and its stream eventually ends.
AskReturnsToIdle ==
    /\ \A i \in 1..MaxAsks : InFlight(i) ~> (Over(i) /\ ~page.loading)
    /\ [][ReturnClearsLoading]_vars

\* C29, its case: two invocations have returned, one after the result event
\* of its stream and the other through its catch block, and the page is not
\* loading.
AskReturnsToIdleWitness ==
    /\ Len(asks) = 2
    /\ Over(1)
    /\ Over(2)
    /\ loads = <<>>
    /\ \E k \in 1..Len(log) : log[k].kind = "result"
    /\ page.error = SetTo(<<"Request failed">>)
    /\ ~page.loading

====
